---------------------------- MODULE Spec2Model ----------------------------
(***************************************************************************)
(* A model of the PDF-to-HTML reconstructor of src/pdf_to_webpage.py       *)
(* (class PDFToHTMLConverter).  Each component of the converter is a       *)
(* group of definitions translated from its method, and each component has *)
(* a specification of its own, whose initial states draw the component's   *)
(* input from bounded sets:                                                *)
(*   SpecAssemble  build_structured_content (the document assembler)       *)
(*   SpecImages    extract_images and insert_relevant_images               *)
(*   SpecReflow    reflow_content and the text repair helpers              *)
(*   SpecColumns   _reorder_lines_by_columns                               *)
(*   SpecTables    detect_tables_advanced and its detectors                *)
(* Texts are sequences of characters, a character being a one-element      *)
(* string; "SHY" stands for the soft hyphen U+00AD and "BULLET" for U+2022.*)
(***************************************************************************)
EXTENDS Integers, Sequences, FiniteSets, TLC

VARIABLES
    pc,                \* the position of the running method
    content_structure, \* the line stream given to build_structured_content
    idx,               \* index of the next item of the stream (1-based)
    html_content,      \* build_structured_content: html_content
    current_section,   \* build_structured_content: current_section (<<>> is None)
    section_content,   \* build_structured_content: section_content
    section_id,        \* build_structured_content: section_id
    toc_items,         \* build_structured_content: toc_items
    list_stack,        \* build_structured_content: list_stack
    section_anchor,    \* build_structured_content: section_anchor
    num_pages,         \* len(self.doc)
    doc_images,        \* the embedded images of the document, in page order
    images,            \* self.images
    hash_counts,       \* extract_images: hash_counts
    image_html,        \* the result of the last insert_relevant_images call
    rf_input,          \* the stream given to the first reflow_content call
    rf_stream,         \* reflow_content: content_structure (its items change in place)
    rf_idx,            \* reflow_content: index of the next item (1-based)
    reflowed,          \* reflow_content: reflowed, as indices of items of rf_stream
    rf_once,           \* reflow_content(rf_input)
    rf_twice,          \* reflow_content(reflow_content(rf_input))
    page_lines,        \* the lines given to _reorder_lines_by_columns
    ordered_lines,     \* the result of _reorder_lines_by_columns
    page_input,        \* self.doc as the table detectors see it: its pages
    page_num,          \* detect_tables_advanced: page_num
    tables             \* self.tables

asmVars == <<content_structure, idx, html_content, current_section, section_content,
             section_id, toc_items, list_stack, section_anchor>>
imgVars == <<num_pages, doc_images, images, hash_counts, image_html>>
rfVars  == <<rf_input, rf_stream, rf_idx, reflowed, rf_once, rf_twice>>
colVars == <<page_lines, ordered_lines>>
tblVars == <<page_input, page_num, tables>>
vars    == <<pc, asmVars, imgVars, rfVars, colVars, tblVars>>

None == "None"

(***************************************************************************)
(* Characters and the character classes of the regular expressions.        *)
(***************************************************************************)
LowerChars == {"a", "b", "c", "d", "e", "f", "g", "h", "i", "j", "k", "l", "m",
               "n", "o", "p", "q", "r", "s", "t", "u", "v", "w", "x", "y", "z"}
UpperChars == {"A", "B", "C", "D", "E", "F", "G", "H", "I", "J", "K", "L", "M",
               "N", "O", "P", "Q", "R", "S", "T", "U", "V", "W", "X", "Y", "Z"}
DigitChars == {"0", "1", "2", "3", "4", "5", "6", "7", "8", "9"}
LetterChars == LowerChars \cup UpperChars
WordChars  == LetterChars \cup DigitChars \cup {"_"}
SpaceChars == {" ", "\t", "\n"}
\* the bullet markers of the list patterns: U+2022, hyphen, en dash, em dash,
\* asterisk, U+25AA, U+25E6
BulletChars == {"BULLET", "-", "ENDASH", "EMDASH", "*", "SQUARE", "RING"}
\* [ivxlcdm] under re.IGNORECASE
RomanChars == {"i", "v", "x", "l", "c", "d", "m", "I", "V", "X", "L", "C", "D", "M"}
CloserChars == {")", "."}

Max2(a, b) == IF a >= b THEN a ELSE b
Min2(a, b) == IF a <= b THEN a ELSE b

RECURSIVE LStrip(_)
LStrip(s) == IF s # <<>> /\ Head(s) \in SpaceChars THEN LStrip(Tail(s)) ELSE s

RECURSIVE RStrip(_)
RStrip(s) ==
    IF s # <<>> /\ s[Len(s)] \in SpaceChars THEN RStrip(SubSeq(s, 1, Len(s) - 1)) ELSE s

Strip(s) == LStrip(RStrip(s))

\* The number of leading characters of s that belong to the class cls.
RECURSIVE RunLen(_, _)
RunLen(s, cls) == IF s # <<>> /\ Head(s) \in cls THEN 1 + RunLen(Tail(s), cls) ELSE 0

Drop(s, n) == SubSeq(s, n + 1, Len(s))

(***************************************************************************)
(* _indent_level_from_x and _parse_list_item.  A parse result is a record  *)
(* [type, content, level]; NoList stands for Python's None.                *)
(***************************************************************************)
IndentBase == 36
IndentStep == 24

IndentLevelFromX(x0) ==
    IF x0 <= IndentBase THEN 0 ELSE (x0 - IndentBase) \div IndentStep

NoList == [type |-> "none", content |-> <<>>, level |-> 0]

\* ^(bullet)\s+(.*)$ on the stripped text: the length of marker and spaces, or 0.
BulletPrefixLen(s) ==
    IF s # <<>> /\ Head(s) \in BulletChars /\ RunLen(Tail(s), SpaceChars) >= 1
    THEN 1 + RunLen(Tail(s), SpaceChars)
    ELSE 0

\* The length of a marker (\d+|[A-Za-z]|[ivxlcdm]+) that a closer follows, or 0.
NumberMarkerLen(s) ==
    LET d == RunLen(s, DigitChars)
        r == RunLen(s, RomanChars)
        closes(n) == n >= 1 /\ Len(s) > n /\ s[n + 1] \in CloserChars
    IN  IF closes(d) THEN d
        ELSE IF s # <<>> /\ Head(s) \in LetterChars /\ closes(1) THEN 1
        ELSE IF closes(r) THEN r
        ELSE 0

\* ^((\d+|[A-Za-z]|[ivxlcdm]+)[\)\.])\s+(.*)$: the length of marker, closer and
\* spaces, or 0.
NumberPrefixLen(s) ==
    LET m == NumberMarkerLen(s)
    IN  IF m >= 1 /\ RunLen(Drop(s, m + 1), SpaceChars) >= 1
        THEN m + 1 + RunLen(Drop(s, m + 1), SpaceChars)
        ELSE 0

ParseListItem(text, x0) ==
    LET stripped == Strip(text)
        b == BulletPrefixLen(stripped)
        n == NumberPrefixLen(stripped)
    IN  IF b > 0
        THEN [type |-> "ul", content |-> Strip(Drop(stripped, b)),
              level |-> IndentLevelFromX(x0)]
        ELSE IF n > 0
        THEN [type |-> "ol", content |-> Strip(Drop(stripped, n)),
              level |-> IndentLevelFromX(x0)]
        ELSE NoList

(***************************************************************************)
(* insert_relevant_images: the images emitted into section section_id.     *)
(***************************************************************************)
\* A variant without the "skip likely watermark images" test.
InsertImagesNoSkip(imgs, sid) ==
    LET F[i \in 0..Len(imgs)] ==
            IF i = 0 THEN <<>>
            ELSE LET image == imgs[i]
                 IN  IF sid = 3 /\ image.is_diagram
                     THEN Append(F[i - 1], [kind |-> "diagram", image |-> image])
                     ELSE IF sid = 5 /\ image.is_diagram
                     THEN Append(F[i - 1], [kind |-> "flowchart", image |-> image])
                     ELSE F[i - 1]
    IN  F[Len(imgs)]

InsertRelevantImages(imgs, sid) ==
    LET F[i \in 0..Len(imgs)] ==
            IF i = 0 THEN <<>>
            ELSE LET image == imgs[i]
                 IN  IF image.is_watermark THEN F[i - 1]
                     ELSE IF sid = 3 /\ image.is_diagram
                     THEN Append(F[i - 1], [kind |-> "diagram", image |-> image])
                     ELSE IF sid = 5 /\ image.is_diagram
                     THEN Append(F[i - 1], [kind |-> "flowchart", image |-> image])
                     ELSE F[i - 1]
    IN  F[Len(imgs)]

(***************************************************************************)
(* insert_relevant_tables and generate_professional_table.  A table is a   *)
(* record [page, data, type, y0]; y0 = NoY stands for a record without the *)
(* 'y0' key or with y0 None.  A section anchor is [page, y0], NoAnchor     *)
(* standing for {'page': None, 'y0': None} (pages and positions are >= 0). *)
(***************************************************************************)
NoY == -1
NoAnchor == [page |-> NoY, y0 |-> NoY]

SectionTableMap(sid) ==
    CASE sid = 1 -> {"stakeholder", "grid"}
      [] sid \in {2, 3, 4} -> {"technical", "grid"}
      [] OTHER -> {}

AbsInt(n) == IF n < 0 THEN -n ELSE n

TableSortKey(t, section_y0, section_page) ==
    IF section_page = NoY \/ section_y0 = NoY \/ t.y0 = NoY
    THEN <<t.page, IF t.y0 # NoY THEN t.y0 ELSE 10^9>>
    ELSE <<IF t.page = section_page THEN 0 ELSE AbsInt(t.page - section_page) * 10000,
           IF t.page = section_page THEN t.y0 - section_y0 ELSE 10^6>>

KeyLess(k1, k2) == k1[1] < k2[1] \/ (k1[1] = k2[1] /\ k1[2] < k2[2])

\* list.sort(key=...): a stable sort of the sequence s of table indices; the
\* head of s goes before the items of its tail that have the same key.
RECURSIVE InsertByKey(_, _, _, _, _)
InsertByKey(sorted, i, tbls, sy0, spage) ==
    IF sorted = <<>> THEN <<i>>
    ELSE IF ~KeyLess(TableSortKey(tbls[Head(sorted)], sy0, spage),
                     TableSortKey(tbls[i], sy0, spage))
    THEN <<i>> \o sorted
    ELSE <<Head(sorted)>> \o InsertByKey(Tail(sorted), i, tbls, sy0, spage)

RECURSIVE SortByKey(_, _, _, _)
SortByKey(s, tbls, sy0, spage) ==
    IF s = <<>> THEN <<>>
    ELSE InsertByKey(SortByKey(Tail(s), tbls, sy0, spage), Head(s), tbls, sy0, spage)

\* The indices of the candidate tables of section sid, in rendering order.
CandidateTables(tbls, sid, sy0, spage) ==
    LET F[i \in 0..Len(tbls)] ==
            IF i = 0 THEN <<>>
            ELSE IF tbls[i].type \in SectionTableMap(sid) THEN Append(F[i - 1], i)
            ELSE F[i - 1]
    IN  SortByKey(F[Len(tbls)], tbls, sy0, spage)

RECURSIVE PadRow(_, _)
PadRow(row, n) == IF Len(row) < n THEN PadRow(Append(row, <<>>), n) ELSE row

\* generate_professional_table pads, in place, every data row that is shorter
\* than the header row; a table with fewer than 2 rows is not rendered.
RenderedData(t) ==
    IF Len(t.data) < 2 THEN t.data
    ELSE [r \in 1..Len(t.data) |->
             IF r = 1 THEN t.data[1] ELSE PadRow(t.data[r], Len(t.data[1]))]

GenerateProfessionalTable(t, i) ==
    IF Len(t.data) < 2 THEN <<>>
    ELSE <<[table |-> i, type |-> t.type, page |-> t.page, data |-> RenderedData(t)]>>

InsertRelevantTables(tbls, sid, sy0, spage) ==
    LET cand == CandidateTables(tbls, sid, sy0, spage)
        F[k \in 0..Len(cand)] ==
            IF k = 0 THEN <<>>
            ELSE F[k - 1] \o GenerateProfessionalTable(tbls[cand[k]], cand[k])
    IN  F[Len(cand)]

\* self.tables after insert_relevant_tables rendered the candidates of sid.
TablesAfterInsert(tbls, sid) ==
    [i \in 1..Len(tbls) |->
        IF tbls[i].type \in SectionTableMap(sid)
        THEN [tbls[i] EXCEPT !.data = RenderedData(tbls[i])]
        ELSE tbls[i]]

(***************************************************************************)
(* build_structured_content.  section_content is a sequence of tokens      *)
(* [tag, kind, text]: "open"/"close" of a list of kind "ul"/"ol", "li" and *)
(* "p".  html_content is a sequence of tokens [tag, text, id, content,     *)
(* images, tables]: a heading "h2"/"h3"/"h4", or a "section" container.    *)
(***************************************************************************)
OpenTok(kind)  == [tag |-> "open", kind |-> kind, text |-> <<>>]
CloseTok(kind) == [tag |-> "close", kind |-> kind, text |-> <<>>]
LiTok(text)    == [tag |-> "li", kind |-> "", text |-> text]
PTok(text)     == [tag |-> "p", kind |-> "", text |-> text]

HeadingTok(tag, text) ==
    [tag |-> tag, text |-> text, id |-> 0, content |-> <<>>, images |-> <<>>,
     tables |-> <<>>]

Top(stack) == stack[Len(stack)]
Pop(stack) == SubSeq(stack, 1, Len(stack) - 1)

\* A variant that closes the innermost list only.
CloseInnermost(stack) ==
    IF stack = <<>> THEN <<>> ELSE <<CloseTok(Top(stack).type)>>

\* while list_stack: section_content += "</" + list_stack.pop()['type'] + ">"
RECURSIVE CloseAll(_)
CloseAll(stack) ==
    IF stack = <<>> THEN <<>> ELSE <<CloseTok(Top(stack).type)>> \o CloseAll(Pop(stack))

\* The three steps of the list reconstruction act on [stack, out].
RECURSIVE CloseDeeper(_, _)
CloseDeeper(st, level) ==
    IF st.stack # <<>> /\ Top(st.stack).level > level
    THEN CloseDeeper([stack |-> Pop(st.stack),
                      out |-> Append(st.out, CloseTok(Top(st.stack).type))], level)
    ELSE st

SwitchType(st, level, list_type) ==
    IF st.stack # <<>> /\ Top(st.stack).level = level /\ Top(st.stack).type # list_type
    THEN [stack |-> Pop(st.stack), out |-> Append(st.out, CloseTok(Top(st.stack).type))]
    ELSE st

\* A variant that opens a list for every item.
OpenListsAlways(st, level, list_type) ==
    [stack |-> Append(st.stack, [type |-> list_type, level |-> level]),
     out |-> Append(st.out, OpenTok(list_type))]

\* A variant that opens the list of the item's level only, whatever the
\* stack holds.
OpenListsAtTarget(st, level, list_type) ==
    IF \/ st.stack = <<>>
       \/ Top(st.stack).level < level
       \/ (Top(st.stack).level = level /\ Top(st.stack).type # list_type)
    THEN [stack |-> Append(st.stack, [type |-> list_type, level |-> level]),
          out |-> Append(st.out, OpenTok(list_type))]
    ELSE st

RECURSIVE OpenLists(_, _, _)
OpenLists(st, level, list_type) ==
    IF \/ st.stack = <<>>
       \/ Top(st.stack).level < level
       \/ (Top(st.stack).level = level /\ Top(st.stack).type # list_type)
    THEN LET new_level == IF st.stack # <<>> THEN Top(st.stack).level + 1 ELSE 0
             st2 == [stack |-> Append(st.stack, [type |-> list_type, level |-> new_level]),
                     out |-> Append(st.out, OpenTok(list_type))]
         IN  IF new_level >= level THEN st2 ELSE OpenLists(st2, level, list_type)
    ELSE st

ListItemStep(stack, list_info) ==
    LET st1 == CloseDeeper([stack |-> stack, out |-> <<>>], list_info.level)
        st2 == SwitchType(st1, list_info.level, list_info.type)
        st3 == OpenLists(st2, list_info.level, list_info.type)
    IN  [stack |-> st3.stack, out |-> Append(st3.out, LiTok(list_info.content))]

\* wrap_section, with the tables that the str.replace puts before the closing div.
WrapSection(title, content, sid, imgs, tbls, anchor) ==
    [tag |-> "section", text |-> title, id |-> sid, content |-> content,
     images |-> InsertRelevantImages(imgs, sid),
     tables |-> InsertRelevantTables(tbls, sid, anchor.y0, anchor.page)]

TocItem(text, sid) == [title |-> text, id |-> sid, level |-> 1]

\* A variant that skips a title the table of contents already holds.
NewTocSkippingRepeats(toc, text, sid) ==
    IF \E k \in 1..Len(toc) : toc[k].title = text
    THEN toc
    ELSE Append(toc, TocItem(text, sid))

\* toc_items.append({...}) of the main_title branch
NewToc(toc, text, sid) == Append(toc, TocItem(text, sid))

CurItem == content_structure[idx]

\* "if current_section and section_content"
SectionPending == current_section # <<>> /\ section_content # <<>>

BuildMainTitle ==
    /\ pc = "build"
    /\ idx <= Len(content_structure)
    /\ CurItem.type = "main_title"
    /\ IF SectionPending
       THEN /\ html_content' =
                  Append(html_content,
                         WrapSection(current_section,
                                     section_content \o CloseAll(list_stack),
                                     section_id, images, tables, section_anchor))
            /\ tables' = TablesAfterInsert(tables, section_id)
            /\ list_stack' = <<>>
            /\ section_content' = <<>>
       ELSE UNCHANGED <<html_content, tables, list_stack, section_content>>
    /\ section_id' = section_id + 1
    /\ current_section' = CurItem.text
    /\ toc_items' = NewToc(toc_items, CurItem.text, section_id + 1)
    /\ section_anchor' = NoAnchor
    /\ idx' = idx + 1
    /\ UNCHANGED <<pc, content_structure, imgVars, rfVars, colVars, page_input, page_num>>

HeadingTag(type) ==
    CASE type = "section_header" -> "h2"
      [] type = "subsection_header" -> "h3"
      [] type = "bold_header" -> "h4"

\* The section_header, subsection_header and bold_header branches.
BuildHeader(type) ==
    /\ pc = "build"
    /\ idx <= Len(content_structure)
    /\ CurItem.type = type
    /\ section_content' = section_content \o CloseAll(list_stack)
    /\ list_stack' = <<>>
    /\ html_content' = Append(html_content, HeadingTok(HeadingTag(type), CurItem.text))
    /\ section_anchor' = [page |-> CurItem.page, y0 |-> CurItem.y0]
    /\ idx' = idx + 1
    /\ UNCHANGED <<pc, content_structure, current_section, section_id, toc_items,
                   imgVars, rfVars, colVars, tblVars>>

BuildSectionHeader == BuildHeader("section_header")
BuildSubsectionHeader == BuildHeader("subsection_header")
BuildBoldHeader == BuildHeader("bold_header")

\* A variant in which every paragraph becomes the anchor.
AnchorAtEveryParagraph(anchor, item) == [page |-> item.page, y0 |-> item.y0]

\* "if section_anchor['page'] is None: section_anchor = {...}"
AnchorAfterParagraph(anchor, item) ==
    IF anchor.page = NoY THEN [page |-> item.page, y0 |-> item.y0] ELSE anchor

BuildParagraph ==
    /\ pc = "build"
    /\ idx <= Len(content_structure)
    /\ CurItem.type = "paragraph"
    /\ LET list_info == ParseListItem(CurItem.text, CurItem.x0)
       IN  IF Len(Strip(CurItem.text)) > 1
           THEN IF list_info # NoList
                THEN LET st == ListItemStep(list_stack, list_info)
                     IN  /\ list_stack' = st.stack
                         /\ section_content' = section_content \o st.out
                         /\ UNCHANGED section_anchor
                ELSE /\ section_content' =
                           (section_content \o CloseAll(list_stack))
                               \o <<PTok(CurItem.text)>>
                     /\ list_stack' = <<>>
                     /\ section_anchor' = AnchorAfterParagraph(section_anchor, CurItem)
           ELSE UNCHANGED <<list_stack, section_content, section_anchor>>
    /\ idx' = idx + 1
    /\ UNCHANGED <<pc, content_structure, html_content, current_section, section_id,
                   toc_items, imgVars, rfVars, colVars, tblVars>>

\* "Add final section" and the return.
BuildFinish ==
    /\ pc = "build"
    /\ idx > Len(content_structure)
    /\ IF SectionPending
       THEN /\ html_content' =
                  Append(html_content,
                         WrapSection(current_section,
                                     section_content \o CloseAll(list_stack),
                                     section_id, images, tables, section_anchor))
            /\ tables' = TablesAfterInsert(tables, section_id)
            /\ list_stack' = <<>>
            /\ section_content' = section_content \o CloseAll(list_stack)
       ELSE UNCHANGED <<html_content, tables, list_stack, section_content>>
    /\ pc' = "built"
    /\ UNCHANGED <<content_structure, idx, current_section, section_id, toc_items,
                   section_anchor, imgVars, rfVars, colVars, page_input, page_num>>

(***************************************************************************)
(* The values the variables of a component hold while another component's  *)
(* specification runs.                                                     *)
(***************************************************************************)
AsmIdle ==
    /\ content_structure = <<>>
    /\ idx = 1
    /\ html_content = <<>>
    /\ current_section = <<>>
    /\ section_content = <<>>
    /\ section_id = 0
    /\ toc_items = <<>>
    /\ list_stack = <<>>
    /\ section_anchor = NoAnchor

ImgIdle ==
    /\ num_pages = 0
    /\ doc_images = <<>>
    /\ images = <<>>
    /\ hash_counts = <<>>
    /\ image_html = <<>>

RfIdle ==
    /\ rf_input = <<>>
    /\ rf_stream = <<>>
    /\ rf_idx = 1
    /\ reflowed = <<>>
    /\ rf_once = <<>>
    /\ rf_twice = <<>>

ColIdle == page_lines = <<>> /\ ordered_lines = <<>>

TblIdle == page_input = <<>> /\ page_num = 0 /\ tables = <<>>

\* All sequences over S of length 0..n.
SeqsUpTo(S, n) == UNION {[1..k -> S] : k \in 0..n}

(***************************************************************************)
(* SpecAssemble: build_structured_content folds over a classified line     *)
(* stream, one action per loop iteration and one for the final section.    *)
(***************************************************************************)
MaxAsmLines == 4

\* The lines of the stream differ in role, text and indent; the text of a line
\* fits its role under classify_text_type.
AsmLineKinds ==
    { [type |-> "main_title", text |-> <<"T", "i">>, x0 |-> 36],
      [type |-> "section_header", text |-> <<"1", " ", "S">>, x0 |-> 36],
      [type |-> "subsection_header",
       text |-> <<"1", ".", "1", ".", "1", " ", "S">>, x0 |-> 36],
      [type |-> "bold_header", text |-> <<"B", "o">>, x0 |-> 36],
      [type |-> "paragraph", text |-> <<"c", "c">>, x0 |-> 36],
      [type |-> "paragraph", text |-> <<"c">>, x0 |-> 36],
      [type |-> "paragraph", text |-> <<"BULLET", " ", "c">>, x0 |-> 40],
      [type |-> "paragraph", text |-> <<"BULLET", " ", "c">>, x0 |-> 60],
      [type |-> "paragraph", text |-> <<"1", ".", " ", "c">>, x0 |-> 40],
      [type |-> "paragraph", text |-> <<"1", ".", " ", "c">>, x0 |-> 90] }

\* Line i of the stream: two lines to a page, at y0 = 100 and 200.
AsmItem(kind, i) ==
    [type |-> kind.type, text |-> kind.text, x0 |-> kind.x0,
     page |-> (i - 1) \div 2, y0 |-> 100 * (((i - 1) % 2) + 1)]

AsmStreams ==
    { [i \in DOMAIN ks |-> AsmItem(ks[i], i)] : ks \in SeqsUpTo(AsmLineKinds, MaxAsmLines) }

\* The tables and images in the converter when assembly starts.
AsmTables ==
    << [page |-> 1, type |-> "grid", y0 |-> NoY,
        data |-> <<<<<<"h">>, <<"h">>>>, <<<<"c">>, <<>>>>>>],
       [page |-> 0, type |-> "stakeholder", y0 |-> 150,
        data |-> <<<<<<"h">>, <<"h">>, <<"h">>>>, <<<<"c">>, <<"c">>>>>>],
       [page |-> 0, type |-> "technical", y0 |-> 50,
        data |-> <<<<<<"h">>, <<"h">>>>, <<<<"c">>, <<"c">>>>>>] >>

\* A second collection: two grid tables without y0, on page 0 and on page 1,
\* a technical table above and one below the lines of page 1, and a
\* stakeholder table on each page.
AsmTablesNear ==
    << [page |-> 0, type |-> "grid", y0 |-> NoY,
        data |-> <<<<<<"h">>, <<"h">>>>, <<<<"c">>, <<"c">>>>>>],
       [page |-> 1, type |-> "grid", y0 |-> NoY,
        data |-> <<<<<<"h">>, <<"h">>>>, <<<<"c">>, <<"c">>>>>>],
       [page |-> 1, type |-> "technical", y0 |-> 50,
        data |-> <<<<<<"h">>, <<"h">>>>, <<<<"c">>, <<"c">>>>>>],
       [page |-> 1, type |-> "technical", y0 |-> 210,
        data |-> <<<<<<"h">>, <<"h">>>>, <<<<"c">>, <<"c">>>>>>],
       [page |-> 1, type |-> "stakeholder", y0 |-> 150,
        data |-> <<<<<<"h">>, <<"h">>, <<"h">>>>, <<<<"c">>, <<"c">>, <<"c">>>>>>],
       [page |-> 0, type |-> "stakeholder", y0 |-> 250,
        data |-> <<<<<<"h">>, <<"h">>, <<"h">>>>, <<<<"c">>, <<"c">>, <<"c">>>>>>] >>

AsmImages ==
    << [page |-> 0, index |-> 0, sha1 |-> 1, alpha_mean |-> 255,
        area_ratio |-> [num |-> 450 * 200, den |-> 612 * 792],
        width |-> 450, height |-> 200, is_diagram |-> TRUE, is_watermark |-> FALSE] >>

InitAssemble ==
    /\ pc = "build"
    /\ content_structure \in AsmStreams
    /\ idx = 1
    /\ html_content = <<>>
    /\ current_section = <<>>
    /\ section_content = <<>>
    /\ section_id = 0
    /\ toc_items = <<>>
    /\ list_stack = <<>>
    /\ section_anchor = NoAnchor
    /\ num_pages = 2
    /\ doc_images = <<>>
    /\ images = AsmImages
    /\ hash_counts = <<>>
    /\ image_html = <<>>
    /\ RfIdle /\ ColIdle
    /\ page_input = <<>>
    /\ page_num = 0
    /\ tables \in {AsmTables, AsmTablesNear}

NextAssemble ==
    \/ BuildMainTitle
    \/ BuildSectionHeader
    \/ BuildSubsectionHeader
    \/ BuildBoldHeader
    \/ BuildParagraph
    \/ BuildFinish

SpecAssemble == InitAssemble /\ [][NextAssemble]_vars

\* The items of the stream before position i whose role is main_title.
TitlesBefore(i) ==
    SelectSeq(SubSeq(content_structure, 1, i - 1), LAMBDA it : it.type = "main_title")

\* C1: at every point of assembly the table of contents holds exactly one
\* entry per main_title line processed so far, in stream order (the k-th entry
\* carries the k-th title's text and the id k); so the returned table of
\* contents has as many entries as the stream has main_title lines.
C1_TocMatchesTitles ==
    /\ Len(toc_items) = Len(TitlesBefore(idx))
    /\ \A k \in 1..Len(toc_items) :
          /\ toc_items[k].title = TitlesBefore(idx)[k].text
          /\ toc_items[k].id = k
    /\ pc = "built" => Len(toc_items) = Len(TitlesBefore(Len(content_structure) + 1))

C1_Witness ==
    /\ pc = "built"
    /\ Len(toc_items) = 2
    /\ Len(content_structure) = 4

(***************************************************************************)
(* extract_images.  An embedded image of the document is a record          *)
(* [page, content, placement]: the content stands for the byte payload     *)
(* (its SHA-1, its mean alpha, or corrupt bytes that make extract_image    *)
(* throw), the placement for what get_image_rects gives on that page (a    *)
(* rectangle, no rectangle, or an exception).  area_ratio is kept as the   *)
(* exact fraction [num, den] of the float the code computes.               *)
(***************************************************************************)
NoAlpha == -1
PageWidth  == 612
PageHeight == 792
DiagramMinWidth  == 400
DiagramMinHeight == 300
WatermarkMinRepeat == 3
AlphaLimit == 220

Hashes == {1, 2}

NoCounts == [h \in Hashes |-> 0]

IsDiagram(width, height) == width > DiagramMinWidth \/ height > DiagramMinHeight

\* repeat >= 3 and (repeat >= max(3, int(0.3 * num_pages))), without the max(3, .)
RepeatedEnoughNoFloor(repeat, n) == repeat >= (3 * n) \div 10

\* repeat >= 3 and (repeat >= max(3, int(0.3 * num_pages))); int(0.3 * n) is
\* (3 * n) \div 10 for every page count below 2000.
RepeatedEnough(repeat, n) ==
    repeat >= WatermarkMinRepeat /\ repeat >= Max2(WatermarkMinRepeat, (3 * n) \div 10)

TransparentLike(img) == img.alpha_mean # NoAlpha /\ img.alpha_mean < AlphaLimit

\* 0.03 <= area_ratio <= 0.6
MediumArea(img) ==
    /\ 3 * img.area_ratio.den <= 100 * img.area_ratio.num
    /\ 100 * img.area_ratio.num <= 60 * img.area_ratio.den

\* The post-processing loop's decision for one image record.
IsWatermark(img, counts, n) ==
    RepeatedEnough(counts[img.sha1], n) /\ (TransparentLike(img) \/ MediumArea(img))

\* img_index: the position of the image in its page's image list.
ImageIndex(doc, i) == Cardinality({j \in 1..(i - 1) : doc[j].page = doc[i].page})

\* The record that the try block appends for a raw image whose extraction succeeds.
ImageRecord(doc, i) ==
    LET raw == doc[i]
        width  == IF raw.placement.has_rect THEN raw.placement.width ELSE 0
        height == IF raw.placement.has_rect THEN raw.placement.height ELSE 0
    IN  [page |-> raw.page, index |-> ImageIndex(doc, i), sha1 |-> raw.content.sha1,
         alpha_mean |-> raw.content.alpha,
         area_ratio |-> [num |-> width * height, den |-> PageWidth * PageHeight],
         width |-> width, height |-> height,
         is_diagram |-> IsDiagram(width, height), is_watermark |-> FALSE]

\* The first loop without its try/except: the first image whose extraction
\* throws ends the loop.
ExtractLoopStopsAtFailure(doc) ==
    LET Failed(i) == doc[i].content.corrupt \/ doc[i].placement.throws
        F[i \in 0..Len(doc)] ==
            IF i = 0 THEN [temp_images |-> <<>>, hash_counts |-> NoCounts]
            ELSE IF \E j \in 1..i : Failed(j) THEN F[i - 1]
            ELSE [temp_images |-> Append(F[i - 1].temp_images, ImageRecord(doc, i)),
                  hash_counts |-> [F[i - 1].hash_counts EXCEPT ![doc[i].content.sha1] = @ + 1]]
    IN  F[Len(doc)]

\* The first loop of extract_images: [temp_images, hash_counts] after the images
\* 1..i of the document.  extract_image throws on corrupt bytes, before the hash
\* is counted; get_image_rects throws after it is counted.
ExtractLoop(doc) ==
    LET F[i \in 0..Len(doc)] ==
            IF i = 0 THEN [temp_images |-> <<>>, hash_counts |-> NoCounts]
            ELSE LET raw == doc[i]
                     counted == [F[i - 1].hash_counts EXCEPT ![raw.content.sha1] = @ + 1]
                 IN  IF raw.content.corrupt THEN F[i - 1]
                     ELSE IF raw.placement.throws
                     THEN [temp_images |-> F[i - 1].temp_images, hash_counts |-> counted]
                     ELSE [temp_images |-> Append(F[i - 1].temp_images, ImageRecord(doc, i)),
                           hash_counts |-> counted]
    IN  F[Len(doc)]

\* The second loop: flag the likely watermarks.
FlagWatermarks(temp_images, counts, n) ==
    [k \in 1..Len(temp_images) |->
        [temp_images[k] EXCEPT !.is_watermark = IsWatermark(temp_images[k], counts, n)]]

ExtractImages ==
    /\ pc = "extract"
    /\ LET r == ExtractLoop(doc_images)
       IN  /\ hash_counts' = r.hash_counts
           /\ images' = FlagWatermarks(r.temp_images, r.hash_counts, num_pages)
    /\ pc' = "extracted"
    /\ UNCHANGED <<num_pages, doc_images, image_html, asmVars, rfVars, colVars, tblVars>>

\* wrap_section calls insert_relevant_images(section_id) for a section.
MaxSectionId == 5

InsertImages(sid) ==
    /\ pc \in {"extracted", "inserted"}
    /\ image_html' = [section_id |-> sid, html |-> InsertRelevantImages(images, sid)]
    /\ pc' = "inserted"
    /\ UNCHANGED <<num_pages, doc_images, images, hash_counts, asmVars, rfVars, colVars,
                   tblVars>>

(***************************************************************************)
(* SpecImages: a document of up to MaxImages embedded images.              *)
(***************************************************************************)
MaxImages == 3
MaxPages  == 11

ImageContents ==
    { [sha1 |-> 1, alpha |-> 219, corrupt |-> FALSE],
      [sha1 |-> 2, alpha |-> NoAlpha, corrupt |-> FALSE],
      [sha1 |-> 1, alpha |-> NoAlpha, corrupt |-> TRUE] }

ImagePlacements ==
    { [has_rect |-> TRUE, width |-> 450, height |-> 200, throws |-> FALSE],
      [has_rect |-> TRUE, width |-> 612, height |-> 792, throws |-> FALSE],
      [has_rect |-> FALSE, width |-> 0, height |-> 0, throws |-> TRUE] }

PageCounts == {1, 3, MaxPages - 1, MaxPages}

\* Image i of the document is on page i - 1 (one image to a page, the last
\* page taking the rest) or every image is on page 0.
ImagePage(layout, i, n) == IF layout = "spread" THEN Min2(i - 1, n - 1) ELSE 0

DocImages(n) ==
    { [i \in DOMAIN cs |->
          [page |-> ImagePage(layout, i, n), content |-> cs[i][1], placement |-> cs[i][2]]] :
      cs \in SeqsUpTo(ImageContents \X ImagePlacements, MaxImages),
      layout \in {"spread", "stacked"} }

InitImages ==
    /\ pc = "extract"
    /\ num_pages \in PageCounts
    /\ doc_images \in DocImages(num_pages)
    /\ images = <<>>
    /\ hash_counts = NoCounts
    /\ image_html = [section_id |-> 0, html |-> <<>>]
    /\ AsmIdle /\ RfIdle /\ ColIdle /\ TblIdle

NextImages ==
    \/ ExtractImages
    \/ \E sid \in 1..MaxSectionId : InsertImages(sid)

SpecImages == InitImages /\ [][NextImages]_vars

\* The images of the document whose bytes hash to h.
DocRecurrence(h) ==
    Cardinality({i \in 1..Len(doc_images) :
                    ~doc_images[i].content.corrupt /\ doc_images[i].content.sha1 = h})

\* The pages of the document on which an image with hash h occurs.
DocPagesOf(h) ==
    {doc_images[i].page : i \in {j \in 1..Len(doc_images) :
                    ~doc_images[j].content.corrupt /\ doc_images[j].content.sha1 = h}}

\* The images of the document that extract_images records: neither their
\* extraction nor their rectangle lookup throws.
Extractable(i) == ~doc_images[i].content.corrupt /\ ~doc_images[i].placement.throws

\* Every embedded image of the document is extracted without an exception.
AllExtractable == \A i \in 1..Len(doc_images) : Extractable(i)

\* C4 (as claimed): an image is flagged is_watermark only if its content hash
\* occurs on at least 3 distinct pages of the document and on at least 30% of
\* its pages, and its mean alpha is below 220 or its area ratio is in [0.03, 0.6].
\* Stated for the documents all of whose images are extracted without an
\* exception.
C4_FlaggedOnlyOnThreePages ==
    AllExtractable =>
    \A k \in 1..Len(images) :
        images[k].is_watermark =>
            /\ Cardinality(DocPagesOf(images[k].sha1)) >= 3
            /\ 10 * Cardinality(DocPagesOf(images[k].sha1)) >= 3 * num_pages
            /\ (TransparentLike(images[k]) \/ MediumArea(images[k]))

\* C5: an image whose content hash occurs fewer than 3 times in the document
\* is never flagged is_watermark, whatever its alpha, area ratio and the page
\* count.
C5_BelowThreeNeverFlagged ==
    \A k \in 1..Len(images) :
        DocRecurrence(images[k].sha1) < 3 => ~images[k].is_watermark

\* an image that recurs twice in a one-page document, is partly transparent and
\* of medium area, and is not flagged
C5_Witness ==
    /\ pc = "extracted"
    /\ num_pages = 1
    /\ \E k \in 1..Len(images) :
          /\ DocRecurrence(images[k].sha1) = 2
          /\ TransparentLike(images[k])
          /\ MediumArea(images[k])
          /\ ~images[k].is_watermark

\* C6 (as claimed): after extract_images an image record is flagged exactly
\* when its hash recurrence r is at least 3 and at least 30% of the page count,
\* and its alpha is set and below 220 or its area ratio is in [0.03, 0.6].
\* Stated for the documents all of whose images are extracted without an
\* exception.
C6_FlaggedExactlyWhen ==
    (pc # "extract" /\ AllExtractable) =>
        \A k \in 1..Len(images) :
            images[k].is_watermark <=>
                /\ hash_counts[images[k].sha1] >= 3
                /\ 10 * hash_counts[images[k].sha1] >= 3 * num_pages
                /\ (TransparentLike(images[k]) \/ MediumArea(images[k]))

\* C7: an image flagged is_watermark is kept in self.images (extract_images
\* records every image it could extract, flagged or not) and is never emitted
\* into the HTML of a section, as a diagram or as a flowchart, for any section
\* id.
C7_WatermarkKeptNotEmitted ==
    /\ pc # "extract" =>
          Len(images) = Cardinality({i \in 1..Len(doc_images) : Extractable(i)})
    /\ pc = "inserted" =>
          \A k \in 1..Len(image_html.html) : ~image_html.html[k].image.is_watermark

\* section 3 is rendered while the collection holds a flagged diagram
C7_Witness ==
    /\ pc = "inserted"
    /\ image_html.section_id = 3
    /\ \E k \in 1..Len(images) : images[k].is_watermark /\ images[k].is_diagram

(***************************************************************************)
(* _clean_text_fragments, _should_merge_paragraphs, _merge_paragraph_pair. *)
(***************************************************************************)
Last(s) == s[Len(s)]
DropLast(s) == SubSeq(s, 1, Len(s) - 1)

\* text.replace('­', '')
RemoveSoftHyphens(s) == SelectSeq(s, LAMBDA ch : ch # "SHY")

\* Whether (\w)-\s+([a-z]) matches at the head of s, and the length of the match.
HyphenBreakLen(s) ==
    IF /\ Len(s) >= 4
       /\ s[1] \in WordChars
       /\ s[2] = "-"
       /\ RunLen(Drop(s, 2), SpaceChars) >= 1
       /\ Len(s) >= 3 + RunLen(Drop(s, 2), SpaceChars)
       /\ s[3 + RunLen(Drop(s, 2), SpaceChars)] \in LowerChars
    THEN 3 + RunLen(Drop(s, 2), SpaceChars)
    ELSE 0

\* re.sub(r'(\w)-\s+([a-z])', r'\1\2', text): the matches are found left to
\* right and do not overlap; the letter that ends a match cannot start the next.
RECURSIVE JoinHyphenBreaks(_)
JoinHyphenBreaks(s) ==
    IF s = <<>> THEN <<>>
    ELSE IF HyphenBreakLen(s) > 0
    THEN <<s[1], s[HyphenBreakLen(s)]>> \o JoinHyphenBreaks(Drop(s, HyphenBreakLen(s)))
    ELSE <<s[1]>> \o JoinHyphenBreaks(Tail(s))

\* re.sub(r'\s{2,}', ' ', text)
RECURSIVE CollapseSpaces(_)
CollapseSpaces(s) ==
    IF s = <<>> THEN <<>>
    ELSE IF RunLen(s, SpaceChars) >= 2
    THEN <<" ">> \o CollapseSpaces(Drop(s, RunLen(s, SpaceChars)))
    ELSE <<s[1]>> \o CollapseSpaces(Tail(s))

CleanTextFragments(text) ==
    IF text = <<>> THEN text
    ELSE Strip(CollapseSpaces(JoinHyphenBreaks(RemoveSoftHyphens(text))))

\* The bullet_like pattern of _should_merge_paragraphs (re.IGNORECASE): the
\* length of a marker at the head of b, or 0.
BulletLikeMarkerLen(b) ==
    LET d == RunLen(b, DigitChars)
        r == RunLen(b, RomanChars)
    IN  IF b = <<>> THEN 0
        ELSE IF b[1] \in BulletChars THEN 1
        ELSE IF d >= 1 /\ Len(b) > d /\ b[d + 1] \in CloserChars THEN d + 1
        ELSE IF r >= 1 /\ Len(b) > r /\ b[r + 1] = "." THEN r + 1
        ELSE IF b[1] \in LetterChars /\ Len(b) > 1 /\ b[2] = ")" THEN 2
        ELSE 0

BulletLike(b) ==
    BulletLikeMarkerLen(b) > 0 /\ RunLen(Drop(b, BulletLikeMarkerLen(b)), SpaceChars) >= 1

\* re.search(r'[\.!?]\s*$', a)
EndsSentence(a) == RStrip(a) # <<>> /\ Last(RStrip(a)) \in {".", "!", "?"}

\* re.search(r'[,:;]\s*$', a)
EndsContinuation(a) == RStrip(a) # <<>> /\ Last(RStrip(a)) \in {",", ":", ";"}

EndsWithHyphen(a) == a # <<>> /\ Last(a) = "-"

\* re.search(r'(?<![A-Za-z])[A-HJ-Za-hj-z]$', a)
SingleLetterEnd(a) ==
    /\ a # <<>>
    /\ Last(a) \in LetterChars \ {"I", "i"}
    /\ (Len(a) = 1 \/ a[Len(a) - 1] \notin LetterChars)

\* re.match(r'^[a-z]{2,}', b)
StartsLowerWord(b) == Len(b) >= 2 /\ b[1] \in LowerChars /\ b[2] \in LowerChars

ShouldMergeParagraphs(prev_text, next_text) ==
    LET a == RStrip(prev_text)
        b == LStrip(next_text)
    IN  IF prev_text = <<>> \/ next_text = <<>> THEN FALSE
        ELSE IF BulletLike(b) THEN FALSE
        ELSE IF EndsSentence(a) /\ b # <<>> /\ b[1] \in UpperChars THEN FALSE
        ELSE IF EndsWithHyphen(a) THEN TRUE
        ELSE IF EndsContinuation(a) THEN TRUE
        ELSE IF b # <<>> /\ b[1] \in LowerChars THEN TRUE
        ELSE IF SingleLetterEnd(a) /\ StartsLowerWord(b) THEN TRUE
        ELSE FALSE

\* A variant that keeps the hyphen and joins with a space.
MergePairKeepingHyphen(prev_text, next_text) ==
    CleanTextFragments((RStrip(prev_text) \o <<" ">>) \o LStrip(next_text))

MergeParagraphPair(prev_text, next_text) ==
    LET a == RStrip(prev_text)
        b == LStrip(next_text)
        merged == IF EndsWithHyphen(a) THEN DropLast(a) \o b
                  ELSE IF SingleLetterEnd(a) /\ StartsLowerWord(b) THEN a \o b
                  ELSE (a \o <<" ">>) \o b
    IN  CleanTextFragments(merged)

(***************************************************************************)
(* reflow_content, one action per loop iteration.  reflowed holds the      *)
(* items by reference: it is a sequence of indices into rf_stream, so that *)
(* prev['text'] = ... changes the item of the stream itself.               *)
(***************************************************************************)
RfItem == rf_stream[rf_idx]
RfPrev == rf_stream[Last(reflowed)]
RfItemText == CleanTextFragments(RfItem.text)

\* The test of line 567: two adjacent paragraph items of one page.
RfMergeCandidate ==
    /\ reflowed # <<>>
    /\ RfItem.type = "paragraph"
    /\ RfPrev.type = "paragraph"
    /\ RfItem.page = RfPrev.page

RfOutput == [k \in 1..Len(reflowed) |-> rf_stream[reflowed[k]]]

\* The iteration merges the item into the previous item of reflowed.
ReflowMerge ==
    /\ pc \in {"reflow1", "reflow2"}
    /\ rf_idx <= Len(rf_stream)
    /\ RfMergeCandidate
    /\ ShouldMergeParagraphs(RfPrev.text, RfItemText)
    /\ rf_stream' = [rf_stream EXCEPT
                        ![rf_idx].text = RfItemText,
                        ![Last(reflowed)].text = MergeParagraphPair(RfPrev.text, RfItemText)]
    /\ rf_idx' = rf_idx + 1
    /\ UNCHANGED <<pc, reflowed, rf_input, rf_once, rf_twice, asmVars, imgVars, colVars,
                   tblVars>>

\* The iteration appends the item to reflowed.
ReflowKeep ==
    /\ pc \in {"reflow1", "reflow2"}
    /\ rf_idx <= Len(rf_stream)
    /\ ~(RfMergeCandidate /\ ShouldMergeParagraphs(RfPrev.text, RfItemText))
    /\ rf_stream' = [rf_stream EXCEPT ![rf_idx].text = RfItemText]
    /\ reflowed' = Append(reflowed, rf_idx)
    /\ rf_idx' = rf_idx + 1
    /\ UNCHANGED <<pc, rf_input, rf_once, rf_twice, asmVars, imgVars, colVars, tblVars>>

\* The first call returns, and its result is given to a second call.
ReflowReturn ==
    /\ pc = "reflow1"
    /\ rf_idx > Len(rf_stream)
    /\ rf_once' = RfOutput
    /\ rf_stream' = RfOutput
    /\ rf_idx' = 1
    /\ reflowed' = <<>>
    /\ pc' = "reflow2"
    /\ UNCHANGED <<rf_input, rf_twice, asmVars, imgVars, colVars, tblVars>>

\* The second call returns.
ReflowAgainReturn ==
    /\ pc = "reflow2"
    /\ rf_idx > Len(rf_stream)
    /\ rf_twice' = RfOutput
    /\ pc' = "reflowed"
    /\ UNCHANGED <<rf_input, rf_stream, rf_idx, reflowed, rf_once, asmVars, imgVars,
                   colVars, tblVars>>

(***************************************************************************)
(* SpecReflow: streams of up to MaxReflowLines lines.  A line's text is as *)
(* _extract_page_lines_with_positions leaves it: stripped and not empty.   *)
(***************************************************************************)
MaxReflowLines == 2

ReflowTexts ==
    { <<"B", "c", "-">>,                       \* ends with a hyphen
      <<"c", " ", "c", ".">>,                  \* starts in lower case, ends a sentence
      <<"c", "-", " ", "c", "-", " ", "c">>,   \* two hyphen breaks in a row
      <<"B", "-", " ", "-">>,                  \* a hyphen after a hyphen and a space
      <<"B", "c", ",">>,                       \* ends with a comma
      <<"B", " ", "c">>,                       \* ends with a one-letter token
      <<"B", " ", "a">>,                       \* ends with the word "a"
      <<"B", " ", "I">>,                       \* ends with the word "I"
      <<"c", "c">>,                            \* a lower-case word
      <<"B", "c", ".">>,                       \* a sentence
      <<"BULLET", " ", "c">>,                  \* a bullet item
      <<"1", ".", " ", "c">>,                  \* a numbered item
      <<"c", " ", " ", "B">>,                  \* a run of spaces
      <<"SHY">> }                              \* nothing but a soft hyphen

ReflowLines ==
    [type : {"paragraph"}, text : ReflowTexts, page : {0, 1}]
        \cup {[type |-> "section_header", text |-> <<"1", " ", "S">>, page |-> 0]}

\* The stream lists the pages in order.
ReflowStreams ==
    { st \in SeqsUpTo(ReflowLines, MaxReflowLines) :
        \A i \in 1..(Len(st) - 1) : st[i].page <= st[i + 1].page }

InitReflow ==
    /\ pc = "reflow1"
    /\ rf_input \in ReflowStreams
    /\ rf_stream = rf_input
    /\ rf_idx = 1
    /\ reflowed = <<>>
    /\ rf_once = <<>>
    /\ rf_twice = <<>>
    /\ AsmIdle /\ ImgIdle /\ ColIdle /\ TblIdle

NextReflow ==
    \/ ReflowMerge
    \/ ReflowKeep
    \/ ReflowReturn
    \/ ReflowAgainReturn

SpecReflow == InitReflow /\ [][NextReflow]_vars

\* C2 (as claimed): reflow is idempotent; the second pass returns the same
\* items with the same texts as the first.
C2_ReflowIdempotent == pc = "reflowed" => rf_twice = rf_once

\* The precondition of C10 at a loop iteration: the previous item and the
\* item are paragraphs of one page, the previous text ends with a hyphen.
C10_HyphenCase ==
    /\ pc \in {"reflow1", "reflow2"}
    /\ rf_idx <= Len(rf_stream)
    /\ RfMergeCandidate
    /\ EndsWithHyphen(RStrip(RfPrev.text))

\* C10 (as claimed): when the first of two consecutive paragraph lines of a
\* page ends with a hyphen and the second does not look like a bullet or
\* numbered marker, the two are merged into one line whose text is the first
\* line without its trailing hyphen followed directly by the second line.
\* Stated for the first two lines of the stream, whose texts are the lines'.
C10_HyphenJoinAsClaimed ==
    [][(C10_HyphenCase /\ pc = "reflow1" /\ rf_idx = 2 /\ ~BulletLike(rf_input[2].text))
          => /\ reflowed' = reflowed
             /\ rf_stream'[1].text = DropLast(rf_input[1].text) \o rf_input[2].text]_vars

\* C10 (amended): when the previous item's text ends with a hyphen and the
\* item's cleaned text is not empty and does not look like a bullet or
\* numbered marker, the iteration merges the two: no item is appended, and
\* the previous item's text becomes _clean_text_fragments of its text without
\* the trailing hyphen followed directly, with no space, by the item's
\* cleaned text.
C10_HyphenJoin ==
    [][(C10_HyphenCase /\ RfItemText # <<>> /\ ~BulletLike(RfItemText))
          => /\ reflowed' = reflowed
             /\ rf_stream'[Last(reflowed)].text =
                   CleanTextFragments(DropLast(RStrip(RfPrev.text)) \o RfItemText)]_vars

\* "Bc-" / "c c." on one page have been merged to "Bcc c."
C10_Witness ==
    /\ pc = "reflow1"
    /\ rf_idx = 3
    /\ rf_input[1] = [type |-> "paragraph", text |-> <<"B", "c", "-">>, page |-> 0]
    /\ rf_input[2] = [type |-> "paragraph", text |-> <<"c", " ", "c", ".">>, page |-> 0]
    /\ reflowed = <<1>>
    /\ rf_stream[1].text = <<"B", "c", "c", " ", "c", ".">>

(***************************************************************************)
(* _reorder_lines_by_columns.  A line is a record [type, x0, y0, id]; id   *)
(* names the line (its text) and plays no part in the ordering.  x0 is     *)
(* held in hundredths of a unit (x0 = 4000 is the position 40.0), so that  *)
(* round(x0, 1) has digits to round; y0 is only ever compared.  The        *)
(* scratch key '__col' that the split leaves on the lines has no reader    *)
(* and is not kept.                                                        *)
(***************************************************************************)
ColumnMinLines == 8
ColumnMinGap == 40

\* round(x0, 1): to the nearest tenth of a unit, in hundredths.  A position
\* that ends in 5 hundredths goes up or down with its binary representation;
\* no input here has one.
Round1(x) == 10 * ((x + 5) \div 10)

LineKeyLess(a, b) == a.y0 < b.y0 \/ (a.y0 = b.y0 /\ a.x0 < b.x0)

\* The column of a line for the threshold kept doubled (2 * threshold).
ColumnOf(it, threshold2) == IF 2 * it.x0 < threshold2 THEN 0 ELSE 1

\* The order of the keys (it['__col'], y0, x0) of line 662; with split FALSE
\* it is the order of the keys (y0, x0) of line 643.
ColumnKeyLess(a, b, split, t2) ==
    IF split /\ ColumnOf(a, t2) # ColumnOf(b, t2)
    THEN ColumnOf(a, t2) < ColumnOf(b, t2)
    ELSE LineKeyLess(a, b)

\* sorted(lines, key=...): a stable sort.
RECURSIVE InsertLine(_, _, _, _)
InsertLine(sorted, it, split, t2) ==
    IF sorted = <<>> THEN <<it>>
    ELSE IF ~ColumnKeyLess(Head(sorted), it, split, t2) THEN <<it>> \o sorted
    ELSE <<Head(sorted)>> \o InsertLine(Tail(sorted), it, split, t2)

RECURSIVE SortLines(_, _, _)
SortLines(s, split, t2) ==
    IF s = <<>> THEN <<>>
    ELSE InsertLine(SortLines(Tail(s), split, t2), Head(s), split, t2)

Baseline(lines) == SortLines(lines, FALSE, 0)

ParagraphLike(it) == it.type \in {"paragraph", "bold_header"}

\* para_x: the x-positions of the paragraph-like items, one entry per item
ParaX(baseline) ==
    LET para == SelectSeq(baseline, ParagraphLike)
    IN  [i \in 1..Len(para) |-> Round1(para[i].x0)]

\* A variant of the test with the threshold off by one.
TooFewParagraphLinesOffByOne(para_x) == Len(para_x) < ColumnMinLines - 1

\* "if len(para_x) < 8: return baseline"
TooFewParagraphLines(para_x) == Len(para_x) < ColumnMinLines

\* sorted(set(para_x))
RECURSIVE SortedSet(_)
SortedSet(S) ==
    IF S = {} THEN <<>>
    ELSE LET lo == CHOOSE v \in S : \A w \in S : v <= w
         IN  <<lo>> \o SortedSet(S \ {lo})

ParaXSorted(para_x) == SortedSet({para_x[i] : i \in 1..Len(para_x)})

\* max(gaps, key=lambda g: g[0]): the index (1-based, of the right neighbour)
\* of the first largest gap.
LargestGapIndex(xs) ==
    CHOOSE i \in 2..Len(xs) :
        /\ \A j \in 2..Len(xs) : xs[j] - xs[j - 1] <= xs[i] - xs[i - 1]
        /\ \A j \in 2..(i - 1) : xs[j] - xs[j - 1] < xs[i] - xs[i - 1]

\* A variant of the split test that asks for a gap above 40.
SplitsColumnsStrictGap(lines) ==
    LET para_x == ParaX(Baseline(lines))
        xs == ParaXSorted(para_x)
    IN  /\ lines # <<>>
        /\ ~TooFewParagraphLines(para_x)
        /\ Len(xs) >= 2
        /\ xs[LargestGapIndex(xs)] - xs[LargestGapIndex(xs) - 1] > 100 * ColumnMinGap

\* Whether the lines are split into two columns.
SplitsColumns(lines) ==
    LET para_x == ParaX(Baseline(lines))
        xs == ParaXSorted(para_x)
    IN  /\ lines # <<>>
        /\ ~TooFewParagraphLines(para_x)
        /\ Len(xs) >= 2
        /\ xs[LargestGapIndex(xs)] - xs[LargestGapIndex(xs) - 1] >= 100 * ColumnMinGap

\* threshold = (para_x_sorted[idx - 1] + para_x_sorted[idx]) / 2.0, kept doubled
Threshold2(lines) ==
    LET xs == ParaXSorted(ParaX(Baseline(lines)))
    IN  xs[LargestGapIndex(xs) - 1] + xs[LargestGapIndex(xs)]

ReorderLinesByColumns(lines) ==
    IF ~SplitsColumns(lines) THEN Baseline(lines)
    ELSE SortLines(Baseline(lines), TRUE, Threshold2(lines))

ReorderLines ==
    /\ pc = "reorder"
    /\ ordered_lines' = ReorderLinesByColumns(page_lines)
    /\ pc' = "reordered"
    /\ UNCHANGED <<page_lines, asmVars, imgVars, rfVars, tblVars>>

\* process_text_with_hierarchy appends the ordered lines of the page to
\* content_structure.
ExtendContent ==
    /\ pc = "reordered"
    /\ content_structure' = content_structure \o ordered_lines
    /\ pc' = "extended"
    /\ UNCHANGED <<idx, html_content, current_section, section_content, section_id,
                   toc_items, list_stack, section_anchor, colVars, imgVars, rfVars,
                   tblVars>>

(***************************************************************************)
(* SpecColumns: a page of up to MaxColLines lines.                         *)
(***************************************************************************)
MaxColLines == 8

ColLineKinds ==
    { [type |-> "paragraph", x0 |-> 4000],
      [type |-> "bold_header", x0 |-> 30000],
      [type |-> "section_header", x0 |-> 4000] }

\* The y-positions of the lines in extraction order: rising, falling, or two
\* lines to a row.
ColLineY(pattern, i, n) ==
    CASE pattern = "rising" -> 10 * i
      [] pattern = "falling" -> 10 * (n + 1 - i)
      [] pattern = "paired" -> 10 * ((i + 1) \div 2)

ColPages ==
    { [i \in DOMAIN ks |->
          [type |-> ks[i].type, x0 |-> ks[i].x0, id |-> i,
           y0 |-> ColLineY(pattern, i, Len(ks))]] :
      ks \in SeqsUpTo(ColLineKinds, MaxColLines),
      pattern \in {"rising", "falling", "paired"} }

\* Pages whose lines all start at different x-positions.  The lines with an
\* odd number are set 2 units apart from x0 = 41 and the lines with an even
\* number 2 units apart in a second run that starts gap units to the right
\* of the first run, the last line of the first run being moved right by
\* nudge hundredths (layout "two_runs"); or the lines are set gap units
\* apart from one another (layout "ladder").
StaggerX(layout, gap, nudge, i, n) ==
    LET last_odd == IF n % 2 = 1 THEN n ELSE n - 1
    IN  CASE layout = "ladder" -> 100 * (40 + gap * i)
          [] layout = "two_runs" ->
               IF i % 2 = 1 THEN 100 * (40 + i) + (IF i = last_odd THEN nudge ELSE 0)
               ELSE 100 * (40 + last_odd + gap + (i - 2))

\* The types of the lines of such a page: paragraphs, paragraphs and bold
\* headers in turn, or a section header followed by paragraphs.
StaggerType(types, i) ==
    CASE types = "paragraphs" -> "paragraph"
      [] types = "mixed" -> IF i % 2 = 1 THEN "paragraph" ELSE "bold_header"
      [] types = "header_first" -> IF i = 1 THEN "section_header" ELSE "paragraph"

StaggerGaps == {3, ColumnMinGap - 1, ColumnMinGap, 260}
StaggerNudges == {0, 4, 6}

StaggeredPages ==
    { [i \in 1..n |->
          [type |-> StaggerType(types, i), x0 |-> StaggerX(layout, gap, nudge, i, n),
           id |-> i, y0 |-> ColLineY(pattern, i, n)]] :
      n \in 1..(MaxColLines + 1),
      layout \in {"two_runs", "ladder"},
      gap \in StaggerGaps,
      nudge \in StaggerNudges,
      types \in {"paragraphs", "mixed", "header_first"},
      pattern \in {"rising", "falling", "paired"} }

InitColumns ==
    /\ pc = "reorder"
    /\ page_lines \in ColPages \cup StaggeredPages
    /\ ordered_lines = <<>>
    /\ AsmIdle /\ ImgIdle /\ RfIdle /\ TblIdle

NextColumns == ReorderLines \/ ExtendContent

SpecColumns == InitColumns /\ [][NextColumns]_vars

\* The lines in top-to-bottom order: sorted by (y0, x0).
TopToBottom(lines) ==
    \A i \in 1..(Len(lines) - 1) : ~LineKeyLess(lines[i + 1], lines[i])

\* The same lines, each once.
SameLines(a, b) ==
    /\ Len(a) = Len(b)
    /\ \A i \in DOMAIN a :
           Cardinality({j \in DOMAIN a : a[j] = a[i]})
               = Cardinality({j \in DOMAIN b : b[j] = a[i]})

ParagraphLikeCount(lines) ==
    Cardinality({i \in DOMAIN lines : ParagraphLike(lines[i])})

DistinctParagraphX(lines) ==
    Cardinality({lines[i].x0 : i \in {j \in DOMAIN lines : ParagraphLike(lines[j])}})

\* C3 as stated: a page whose paragraph-like lines have fewer than 8 distinct
\* left-x positions is returned in top-to-bottom order, sorted by (y0, x0),
\* with no column split.
C3_FewDistinctXNoSplit ==
    (pc = "reordered" /\ DistinctParagraphX(page_lines) < 8)
        => TopToBottom(ordered_lines)

\* C3 amended: a page with fewer than 8 paragraph-like lines (paragraph or
\* bold_header) gets no column split: _reorder_lines_by_columns returns the
\* same lines in top-to-bottom order, sorted by (y0, x0).
C3_FewParagraphLinesNoSplit ==
    (pc = "reordered" /\ ParagraphLikeCount(page_lines) < 8)
        => /\ TopToBottom(ordered_lines)
           /\ SameLines(ordered_lines, page_lines)

\* Seven paragraph-like lines and a header in two far-apart x-positions, not
\* in top-to-bottom order on input, have been reordered.
C3_Witness ==
    /\ pc = "reordered"
    /\ Len(page_lines) = 8
    /\ ParagraphLikeCount(page_lines) = 7
    /\ DistinctParagraphX(page_lines) = 2
    /\ \E i, j \in DOMAIN page_lines :
           /\ page_lines[i].x0 = 4000 /\ page_lines[j].x0 = 30000
           /\ page_lines[i].y0 > page_lines[j].y0
    /\ ~TopToBottom(page_lines)
    /\ TopToBottom(ordered_lines)

(***************************************************************************)
(* The keyword-pattern table detectors: find_stakeholder_tables,           *)
(* find_technical_tables, is_table_row, is_section_break, split_table_row. *)
(* A page is a record [lines, drawings]; a line is a sequence of spans     *)
(* [x0, y0, text] (the lines of all blocks in order); a table row is a     *)
(* sequence of cell texts.                                                 *)
(***************************************************************************)
LowerAlphabet ==
    <<"a", "b", "c", "d", "e", "f", "g", "h", "i", "j", "k", "l", "m",
      "n", "o", "p", "q", "r", "s", "t", "u", "v", "w", "x", "y", "z">>
UpperAlphabet ==
    <<"A", "B", "C", "D", "E", "F", "G", "H", "I", "J", "K", "L", "M",
      "N", "O", "P", "Q", "R", "S", "T", "U", "V", "W", "X", "Y", "Z">>

\* str.lower
ToLower(ch) ==
    IF ch \in UpperChars
    THEN LowerAlphabet[CHOOSE i \in DOMAIN UpperAlphabet : UpperAlphabet[i] = ch]
    ELSE ch
Lower(text) == [i \in DOMAIN text |-> ToLower(text[i])]

\* text.isupper(): some cased character and no lowercase one
IsUpper(text) ==
    /\ \E i \in DOMAIN text : text[i] \in UpperChars
    /\ \A i \in DOMAIN text : text[i] \notin LowerChars

StartsWith(s, p) == Len(s) >= Len(p) /\ SubSeq(s, 1, Len(p)) = p

\* "p in text"
Contains(text, p) ==
    \E i \in 1..(Len(text) - Len(p) + 1) : SubSeq(text, i, i + Len(p) - 1) = p

\* any(p in text for p in ps)
ContainsAny(text, ps) == \E p \in ps : Contains(text, p)

\* The number of leading characters of s that are not whitespace.
RECURSIVE WordLen(_)
WordLen(s) == IF s # <<>> /\ Head(s) \notin SpaceChars THEN 1 + WordLen(Tail(s)) ELSE 0

\* len(text.split())
RECURSIVE WordCount(_)
WordCount(s) ==
    IF s = <<>> THEN 0
    ELSE IF Head(s) \in SpaceChars THEN WordCount(LStrip(s))
    ELSE 1 + WordCount(Drop(s, WordLen(s)))

\* text.count(ch)
CountChar(text, ch) == Cardinality({i \in DOMAIN text : text[i] = ch})

\* text.replace(p, "")
RECURSIVE RemoveAll(_, _)
RemoveAll(s, p) ==
    IF s = <<>> THEN <<>>
    ELSE IF StartsWith(s, p) THEN RemoveAll(Drop(s, Len(p)), p)
    ELSE <<Head(s)>> \o RemoveAll(Tail(s), p)


\* find_stakeholder_tables: the header phrases, the header row, the row
\* categories and the stoppers
StakeholderKeywords ==
    [ headers |->
        { <<"S","t","a","k","e","h","o","l","d","e","r"," ","C","a","t","e","g","o","r","y">>,
          <<"P","r","i","m","a","r","y"," ","U","s","e","r","s">>,
          <<"S","e","c","o","n","d","a","r","y"," ","U","s","e","r","s">> },
      header_row |->
        << <<"S","t","a","k","e","h","o","l","d","e","r"," ","C","a","t","e","g","o","r","y">>,
           <<"P","r","i","m","a","r","y"," ","U","s","e","r","s">>,
           <<"S","e","c","o","n","d","a","r","y"," ","U","s","e","r","s">> >>,
      categories |->
        { <<"C","u","l","t","u","r","a","l"," ","P","r","o","d","u","c","e","r","s">>,
          <<"G","o","v","e","r","n","m","e","n","t"," ","P","a","r","t","n","e","r","s">>,
          <<"E","n","d"," ","C","o","n","s","u","m","e","r","s">>,
          <<"T","e","c","h","n","o","l","o","g","y"," ","P","a","r","t","n","e","r","s">> },
      stoppers |->
        { <<"e","x","p","e","c","t","e","d">>,
          <<"b","u","s","i","n","e","s","s">>,
          <<"i","m","p","a","c","t">> } ]

\* find_technical_tables: the header phrases and header rows of the dependency,
\* requirement and objective tables
TechnicalKeywords ==
    [ dependency_headers |->
        { <<"D","e","p","e","n","d","e","n","c","y"," ","T","y","p","e">>,
          <<"R","e","q","u","i","r","e","m","e","n","t","s">> },
      dependency_row |->
        << <<"D","e","p","e","n","d","e","n","c","y"," ","T","y","p","e">>,
           <<"R","e","q","u","i","r","e","m","e","n","t","s">> >>,
      requirement_headers |->
        { <<"R","e","q","u","i","r","e","m","e","n","t"," ","I","D">>,
          <<"D","e","s","c","r","i","p","t","i","o","n">>,
          <<"A","c","c","e","p","t","a","n","c","e"," ","C","r","i","t","e","r","i","a">> },
      requirement_row |->
        << <<"R","e","q","u","i","r","e","m","e","n","t"," ","I","D">>,
           <<"D","e","s","c","r","i","p","t","i","o","n">>,
           <<"A","c","c","e","p","t","a","n","c","e"," ","C","r","i","t","e","r","i","a">> >>,
      requirement_row_long |->
        << <<"R","e","q","u","i","r","e","m","e","n","t"," ","I","D">>,
           <<"D","e","s","c","r","i","p","t","i","o","n">>,
           <<"A","c","c","e","p","t","a","n","c","e"," ","C","r","i","t","e","r","i","a">>,
           <<"P","r","i","o","r","i","t","y">>,
           <<"C","o","m","p","l","e","x","i","t","y">> >>,
      priority |->
        <<"P","r","i","o","r","i","t","y">>,
      complexity |->
        <<"C","o","m","p","l","e","x","i","t","y">>,
      objective_headers |->
        { <<"O","b","j","e","c","t","i","v","e"," ","C","a","t","e","g","o","r","y">>,
          <<"T","a","r","g","e","t"," ","M","e","t","r","i","c">>,
          <<"T","i","m","e","l","i","n","e">> },
      objective_row |->
        << <<"O","b","j","e","c","t","i","v","e"," ","C","a","t","e","g","o","r","y">>,
           <<"T","a","r","g","e","t"," ","M","e","t","r","i","c">>,
           <<"T","i","m","e","l","i","n","e">> >> ]

\* split_table_row, is_table_row: the requirement id mark, the priority words
\* (looked for in text.lower(), and in the order of the alternation), the
\* dependency words, the dependency types in loop order, the objective phrases
RowKeywords ==
    [ requirement_id |->
        <<"F","-">>,
      priority_lower |->
        { <<"m","u","s","t","-","h","a","v","e">>,
          <<"s","h","o","u","l","d","-","h","a","v","e">>,
          <<"h","i","g","h">>,
          <<"m","e","d","i","u","m">>,
          <<"l","o","w">> },
      priority |->
        << <<"M","u","s","t","-","H","a","v","e">>,
           <<"S","h","o","u","l","d","-","H","a","v","e">>,
           <<"H","i","g","h">>,
           <<"M","e","d","i","u","m">>,
           <<"L","o","w">> >>,
      dependency_words |->
        { <<"P","r","e","r","e","q","u","i","s","i","t","e">>,
          <<"S","y","s","t","e","m">>,
          <<"E","x","t","e","r","n","a","l">>,
          <<"I","n","t","e","g","r","a","t","i","o","n">> },
      dependency_types |->
        << <<"P","r","e","r","e","q","u","i","s","i","t","e"," ","F","e","a","t","u","r","e","s">>,
           <<"S","y","s","t","e","m"," ","D","e","p","e","n","d","e","n","c","i","e","s">>,
           <<"E","x","t","e","r","n","a","l"," ","D","e","p","e","n","d","e","n","c","i","e","s">>,
           <<"I","n","t","e","g","r","a","t","i","o","n"," ","R","e","q","u","i","r","e","m","e","n","t","s">> >>,
      objective_lower |->
        { <<"u","s","e","r"," ","a","d","o","p","t","i","o","n">>,
          <<"e","c","o","n","o","m","i","c"," ","i","m","p","a","c","t">>,
          <<"c","u","l","t","u","r","a","l"," ","p","r","e","s","e","r","v","a","t","i","o","n">> } ]

\* is_section_break: the phrases looked for in text.lower() and the markers
SectionKeywords ==
    [ phrases_lower |->
        { <<"t","e","c","h","n","i","c","a","l"," ","s","p","e","c","i","f","i","c","a","t","i","o","n","s">>,
          <<"f","u","n","c","t","i","o","n","a","l"," ","r","e","q","u","i","r","e","m","e","n","t","s">>,
          <<"u","s","e","r"," ","b","e","n","e","f","i","t","s">> },
      markers |->
        { <<"U","s","e","r"," ","B","e","n","e","f","i","t","s",":">>,
          <<"T","e","c","h","n","i","c","a","l"," ","C","o","n","t","e","x","t",":">> } ]

\* The length of the match of a split pattern at the head of s, or 0:
\* "wide" is \s{3,}, "delims" is [,;]\s*, "priority" is
\* (Must-Have|Should-Have|High|Medium|Low).
SplitMatchLen(s, pattern) ==
    CASE pattern = "wide" ->
            IF RunLen(s, SpaceChars) >= 3 THEN RunLen(s, SpaceChars) ELSE 0
      [] pattern = "delims" ->
            IF s # <<>> /\ Head(s) \in {",", ";"}
            THEN 1 + RunLen(Tail(s), SpaceChars) ELSE 0
      [] pattern = "priority" ->
            LET words == RowKeywords.priority
                hits == {i \in DOMAIN words : StartsWith(s, words[i])}
            IN  IF hits = {} THEN 0
                ELSE Len(words[CHOOSE i \in hits : \A j \in hits : i <= j])

\* re.split(pattern, text) from the text left to scan and the part read so
\* far; the pattern with a capturing group keeps its matches as parts.
RECURSIVE ReSplitFrom(_, _, _)
ReSplitFrom(s, cur, pattern) ==
    IF s = <<>> THEN <<cur>>
    ELSE LET n == SplitMatchLen(s, pattern)
         IN  IF n > 0
             THEN <<cur>>
                  \o (IF pattern = "priority" THEN <<SubSeq(s, 1, n)>> ELSE <<>>)
                  \o ReSplitFrom(Drop(s, n), <<>>, pattern)
             ELSE ReSplitFrom(Tail(s), Append(cur, Head(s)), pattern)

ReSplit(text, pattern) == ReSplitFrom(text, <<>>, pattern)

\* [p.strip() for p in parts if p.strip()]
StripParts(parts) ==
    LET stripped == [i \in DOMAIN parts |-> Strip(parts[i])]
    IN  SelectSeq(stripped, LAMBDA p : p # <<>>)

\* The parts of a row of the functional requirements table.
SplitRequirementRow(text) ==
    IF Len(ReSplit(text, "wide")) < 3
    THEN StripParts(ReSplit(text, "priority"))
    ELSE ReSplit(text, "wide")

\* The parts of a row of the dependencies table: the first dependency type
\* found in the text and the rest of the text, or the wide-space split.
SplitDependencyRow(text) ==
    LET types == RowKeywords.dependency_types
        hits == {i \in DOMAIN types : Contains(text, types[i])}
        dep_type == types[CHOOSE i \in hits : \A j \in hits : i <= j]
    IN  IF hits = {} THEN ReSplit(text, "wide")
        ELSE <<dep_type, Strip(RemoveAll(text, dep_type))>>

\* The general splitting.
SplitGeneralRow(text) ==
    IF Len(ReSplit(text, "wide")) = 1 THEN ReSplit(text, "delims")
    ELSE ReSplit(text, "wide")

SplitTableRow(text) ==
    LET parts ==
            IF /\ Contains(text, RowKeywords.requirement_id)
               /\ ContainsAny(Lower(text), RowKeywords.priority_lower)
            THEN SplitRequirementRow(text)
            ELSE IF ContainsAny(text, RowKeywords.dependency_words)
            THEN SplitDependencyRow(text)
            ELSE SplitGeneralRow(text)
    IN  StripParts([i \in DOMAIN parts |-> CleanTextFragments(parts[i])])

IsTableRow(text) ==
    \/ Contains(text, RowKeywords.requirement_id)
    \/ ContainsAny(text, RowKeywords.dependency_words)
    \/ ContainsAny(text, {RowKeywords.priority[i] : i \in DOMAIN RowKeywords.priority})
    \/ ContainsAny(Lower(text), RowKeywords.objective_lower)
    \/ CountChar(text, "\t") > 1
    \/ Len(ReSplit(text, "wide")) - 1 > 1

IsSectionBreak(text) ==
    \/ RunLen(text, DigitChars) >= 1
         /\ Len(text) > RunLen(text, DigitChars)
         /\ text[RunLen(text, DigitChars) + 1] = "."
    \/ ContainsAny(Lower(text), SectionKeywords.phrases_lower)
    \/ Len(text) > 50 /\ IsUpper(text)
    \/ ContainsAny(text, SectionKeywords.markers)

\* line_text: the stripped span texts, a space after each, stripped.
LineText(line) ==
    LET F[i \in 0..Len(line)] ==
            IF i = 0 THEN <<>> ELSE F[i - 1] \o Strip(line[i].text) \o <<" ">>
    IN  Strip(F[Len(line)])

\* first_span_y: every span of a page carries its bbox.
FirstSpanY(line) == IF line = <<>> THEN NoY ELSE line[1].y0

\* One iteration of the loop of find_stakeholder_tables over the lines; st is
\* [table_data, collecting_table, header_y0].
StakeholderLine(st, line) ==
    LET line_text == LineText(line)
    IN  IF ContainsAny(line_text, StakeholderKeywords.headers)
        THEN [table_data |->
                  IF WordCount(line_text) >= 2
                  THEN Append(st.table_data, StakeholderKeywords.header_row)
                  ELSE st.table_data,
              collecting_table |-> TRUE,
              header_y0 |-> FirstSpanY(line)]
        ELSE IF st.collecting_table /\ line_text # <<>>
        THEN IF ContainsAny(line_text, StakeholderKeywords.categories)
             THEN IF Len(SplitTableRow(line_text)) >= 2
                  THEN [st EXCEPT !.table_data = Append(@, SplitTableRow(line_text))]
                  ELSE st
             ELSE IF ~ContainsAny(Lower(line_text), StakeholderKeywords.stoppers)
             THEN st
             ELSE [st EXCEPT !.collecting_table = FALSE]
        ELSE st

\* The tables that find_stakeholder_tables appends for a page.
FindStakeholderTables(page, pnum) ==
    LET F[i \in 0..Len(page.lines)] ==
            IF i = 0
            THEN [table_data |-> <<>>, collecting_table |-> FALSE, header_y0 |-> NoY]
            ELSE StakeholderLine(F[i - 1], page.lines[i])
        st == F[Len(page.lines)]
    IN  IF Len(st.table_data) > 1
        THEN <<[page |-> pnum, data |-> st.table_data, type |-> "stakeholder",
                y0 |-> st.header_y0]>>
        ELSE <<>>

\* The header row that a line of find_technical_tables announces, or <<>>.
TechnicalHeaderRow(line_text) ==
    IF ContainsAny(line_text, TechnicalKeywords.dependency_headers)
    THEN TechnicalKeywords.dependency_row
    ELSE IF ContainsAny(line_text, TechnicalKeywords.requirement_headers)
    THEN IF /\ Contains(line_text, TechnicalKeywords.priority)
            /\ Contains(line_text, TechnicalKeywords.complexity)
         THEN TechnicalKeywords.requirement_row_long
         ELSE TechnicalKeywords.requirement_row
    ELSE IF ContainsAny(line_text, TechnicalKeywords.objective_headers)
    THEN TechnicalKeywords.objective_row
    ELSE <<>>

\* One iteration of the loop of find_technical_tables; st is [table_data,
\* collecting_table, header_y0, found], found being the tables appended so far.
TechnicalLine(st, line, pnum) ==
    LET line_text == LineText(line)
    IN  IF TechnicalHeaderRow(line_text) # <<>>
        THEN [st EXCEPT !.table_data = Append(@, TechnicalHeaderRow(line_text)),
                        !.collecting_table = TRUE,
                        !.header_y0 = FirstSpanY(line)]
        ELSE IF st.collecting_table /\ line_text # <<>>
        THEN IF IsTableRow(line_text)
             THEN IF Len(SplitTableRow(line_text)) >= 2
                  THEN [st EXCEPT !.table_data = Append(@, SplitTableRow(line_text))]
                  ELSE st
             ELSE IF IsSectionBreak(line_text)
             THEN [st EXCEPT
                      !.found = IF Len(st.table_data) > 1
                                THEN Append(@, [page |-> pnum, data |-> st.table_data,
                                                type |-> "technical", y0 |-> NoY])
                                ELSE @,
                      !.collecting_table = FALSE,
                      !.table_data = <<>>]
             ELSE st
        ELSE st

\* The tables that find_technical_tables appends for a page.
FindTechnicalTables(page, pnum) ==
    LET F[i \in 0..Len(page.lines)] ==
            IF i = 0
            THEN [table_data |-> <<>>, collecting_table |-> FALSE, header_y0 |-> NoY,
                  found |-> <<>>]
            ELSE TechnicalLine(F[i - 1], page.lines[i], pnum)
        st == F[Len(page.lines)]
    IN  IF Len(st.table_data) > 1
        THEN Append(st.found, [page |-> pnum, data |-> st.table_data,
                               type |-> "technical", y0 |-> st.header_y0])
        ELSE st.found

(***************************************************************************)
(* The grid detectors: _detect_tables_from_drawing_lines and               *)
(* _detect_tables_from_text_grid.  A drawing is the segment [x0, y0, x1,   *)
(* y1] between the end points of a path command.  Positions are whole      *)
(* numbers; the centre of a cluster is kept doubled and the running mean   *)
(* of a row is kept as a fraction [num, den], so that no rounding occurs.  *)
(***************************************************************************)
GridMinLength == 10
ClusterTol == 3
RowTolY == 3
GapThreshold == 25
GridMinColumns == 3
GridMinRows == 3

IsHorizontal(sg) == AbsInt(sg.y1 - sg.y0) < 1 /\ AbsInt(sg.x1 - sg.x0) > GridMinLength

IsVertical(sg) ==
    /\ ~IsHorizontal(sg)
    /\ AbsInt(sg.x1 - sg.x0) < 1
    /\ AbsInt(sg.y1 - sg.y0) > GridMinLength

Horizontals(drawings) ==
    LET hs == SelectSeq(drawings, IsHorizontal)
    IN  [i \in DOMAIN hs |-> [x0 |-> Min2(hs[i].x0, hs[i].x1), y0 |-> hs[i].y0,
                              x1 |-> Max2(hs[i].x0, hs[i].x1), y1 |-> hs[i].y1]]

Verticals(drawings) ==
    LET vs == SelectSeq(drawings, IsVertical)
    IN  [i \in DOMAIN vs |-> [x0 |-> vs[i].x0, y0 |-> Min2(vs[i].y0, vs[i].y1),
                              x1 |-> vs[i].x1, y1 |-> Max2(vs[i].y0, vs[i].y1)]]

\* cluster(vals, tol=3.0): the doubled centres (a + b) of the clusters of the
\* values; a value met again joins the cluster it is in, so the values are
\* taken as a set.
Cluster(vals) ==
    LET sorted == SortedSet(vals)
        F[i \in 0..Len(sorted)] ==
            IF i = 0 THEN <<>>
            ELSE IF F[i - 1] = <<>> \/ sorted[i] - Last(F[i - 1]).b > ClusterTol
            THEN Append(F[i - 1], [a |-> sorted[i], b |-> sorted[i]])
            ELSE Append(DropLast(F[i - 1]), [a |-> Last(F[i - 1]).a, b |-> sorted[i]])
        clusters == F[Len(sorted)]
    IN  [i \in DOMAIN clusters |-> clusters[i].a + clusters[i].b]

\* The spans of a page, in the order of its lines.
PageSpans(page) ==
    LET F[i \in 0..Len(page.lines)] ==
            IF i = 0 THEN <<>> ELSE F[i - 1] \o page.lines[i]
    IN  F[Len(page.lines)]

\* page.get_textbox(rect): the text of the spans that start inside the
\* rectangle, one to a line; the rectangle is given doubled.
GetTextbox(page, rx0, ry0, rx1, ry1) ==
    LET inside == SelectSeq(PageSpans(page),
                            LAMBDA sp : /\ rx0 <= 2 * sp.x0 /\ 2 * sp.x0 <= rx1
                                        /\ ry0 <= 2 * sp.y0 /\ 2 * sp.y0 <= ry1)
        F[i \in 0..Len(inside)] ==
            IF i = 0 THEN <<>>
            ELSE IF i = 1 THEN inside[1].text
            ELSE F[i - 1] \o <<"\n">> \o inside[i].text
    IN  F[Len(inside)]

DecimalDigits == <<"0", "1", "2", "3", "4", "5", "6", "7", "8", "9">>

\* str(n) for n >= 0
RECURSIVE Decimal(_)
Decimal(n) ==
    IF n < 10 THEN <<DecimalDigits[n + 1]>>
    ELSE Decimal(n \div 10) \o <<DecimalDigits[(n % 10) + 1]>>

\* f"Col {i+1}" for the 0-based i, given 1-based
ColName(i) == <<"C", "o", "l", " ">> \o Decimal(i)

\* [cell if cell else f"Col {i+1}" for i, cell in enumerate(row)]
HeaderCells(row) == [i \in DOMAIN row |-> IF row[i] # <<>> THEN row[i] ELSE ColName(i)]

\* The loop that both grid detectors run over their rows: the first row with a
\* non-empty cell becomes the header row, every other row is a data row.  A
\* header row has a cell at least, so <<>> stands for headers = None.
HeadersAndRows(grid_rows) ==
    LET F[i \in 0..Len(grid_rows)] ==
            IF i = 0 THEN [headers |-> <<>>, rows |-> <<>>]
            ELSE IF /\ F[i - 1].headers = <<>>
                    /\ \E c \in DOMAIN grid_rows[i] : grid_rows[i][c] # <<>>
            THEN [F[i - 1] EXCEPT !.headers = HeaderCells(grid_rows[i])]
            ELSE [F[i - 1] EXCEPT !.rows = Append(@, grid_rows[i])]
    IN  F[Len(grid_rows)]

\* "if headers and rows: self.tables.append(...)"
GridTable(hr, pnum) ==
    IF hr.headers # <<>> /\ hr.rows # <<>>
    THEN <<[page |-> pnum, data |-> <<hr.headers>> \o hr.rows, type |-> "grid",
            y0 |-> NoY]>>
    ELSE <<>>

\* The tables that _detect_tables_from_drawing_lines appends for a page.
DetectTablesFromDrawingLines(page, pnum) ==
    LET horizontals == Horizontals(page.drawings)
        verticals == Verticals(page.drawings)
        xs == Cluster({horizontals[i].x0 : i \in DOMAIN horizontals}
                      \cup {verticals[i].x0 : i \in DOMAIN verticals}
                      \cup {horizontals[i].x1 : i \in DOMAIN horizontals})
        ys == Cluster({verticals[i].y0 : i \in DOMAIN verticals}
                      \cup {horizontals[i].y0 : i \in DOMAIN horizontals}
                      \cup {verticals[i].y1 : i \in DOMAIN verticals})
        grid_rows ==
            [r \in 1..(Len(ys) - 1) |->
                [c \in 1..(Len(xs) - 1) |->
                    CleanTextFragments(Strip(GetTextbox(page, xs[c] + 2, ys[r] + 2,
                                                        xs[c + 1] - 2, ys[r + 1] - 2)))]]
    IN  IF Len(horizontals) < 2 \/ Len(verticals) < 2 THEN <<>>
        ELSE IF Len(xs) < 2 \/ Len(ys) < 2 THEN <<>>
        ELSE GridTable(HeadersAndRows(grid_rows), pnum)

\* The order of the sort keys of the text-grid detector: (y0, x0) for the
\* spans of the page, x0 for the spans of a row.
SpanKeyLess(a, b, by_row) ==
    IF by_row THEN a.y0 < b.y0 \/ (a.y0 = b.y0 /\ a.x0 < b.x0)
    ELSE a.x0 < b.x0

\* list.sort(key=...): a stable sort.
RECURSIVE InsertSpan(_, _, _)
InsertSpan(sorted, sp, by_row) ==
    IF sorted = <<>> THEN <<sp>>
    ELSE IF ~SpanKeyLess(Head(sorted), sp, by_row) THEN <<sp>> \o sorted
    ELSE <<Head(sorted)>> \o InsertSpan(Tail(sorted), sp, by_row)

RECURSIVE SortSpans(_, _)
SortSpans(s, by_row) ==
    IF s = <<>> THEN <<>>
    ELSE InsertSpan(SortSpans(Tail(s), by_row), Head(s), by_row)

\* span_rows: the spans with a non-blank text, their text stripped, sorted by
\* (y0, x0).
SpanRows(page) ==
    LET spans == PageSpans(page)
        stripped == [i \in DOMAIN spans |-> [spans[i] EXCEPT !.text = Strip(@)]]
    IN  SortSpans(SelectSeq(stripped, LAMBDA sp : sp.text # <<>>), TRUE)

\* last_y = None
NoLastY == [num |-> 0, den |-> 0]

\* The rows of spans: a span joins the current row when its y0 is within
\* RowTolY of last_y, which then moves half way towards it.
ClusterRows(span_rows) ==
    LET F[i \in 0..Len(span_rows)] ==
            IF i = 0 THEN [rows |-> <<>>, current |-> <<>>, last_y |-> NoLastY]
            ELSE LET st == F[i - 1]
                     sp == span_rows[i]
                 IN  IF st.last_y = NoLastY
                     THEN [rows |-> st.rows, current |-> Append(st.current, sp),
                           last_y |-> [num |-> sp.y0, den |-> 1]]
                     ELSE IF AbsInt(sp.y0 * st.last_y.den - st.last_y.num)
                                <= RowTolY * st.last_y.den
                     THEN [rows |-> st.rows, current |-> Append(st.current, sp),
                           last_y |-> [num |-> st.last_y.num + sp.y0 * st.last_y.den,
                                       den |-> 2 * st.last_y.den]]
                     ELSE [rows |-> Append(st.rows, st.current), current |-> <<sp>>,
                           last_y |-> [num |-> sp.y0, den |-> 1]]
        st == F[Len(span_rows)]
    IN  IF st.current # <<>> THEN Append(st.rows, st.current) ELSE st.rows

\* ' '.join(buf).strip()
JoinCell(buf) ==
    LET F[i \in 0..Len(buf)] ==
            IF i = 0 THEN <<>>
            ELSE IF i = 1 THEN buf[1]
            ELSE F[i - 1] \o <<" ">> \o buf[i]
    IN  Strip(F[Len(buf)])

\* The cells of a row of spans: a gap of more than GapThreshold between the
\* left edges of two neighbours starts a new cell.
BuildCells(row) ==
    LET spans == SortSpans(row, FALSE)
        F[i \in 0..Len(spans)] ==
            IF i = 0 THEN [cells |-> <<>>, buf |-> <<>>]
            ELSE IF /\ i > 1
                    /\ spans[i].x0 - spans[i - 1].x0 > GapThreshold
                    /\ F[i - 1].buf # <<>>
            THEN [cells |-> Append(F[i - 1].cells, JoinCell(F[i - 1].buf)),
                  buf |-> <<spans[i].text>>]
            ELSE [F[i - 1] EXCEPT !.buf = Append(@, spans[i].text)]
        st == F[Len(spans)]
    IN  IF st.buf # <<>> THEN Append(st.cells, JoinCell(st.buf)) ELSE st.cells

\* built_rows
BuiltRows(page) ==
    LET rows == ClusterRows(SpanRows(page))
    IN  [i \in DOMAIN rows |-> BuildCells(rows[i])]

\* counts[n]: the number of built rows with n cells
CountOf(built_rows, n) == Cardinality({i \in DOMAIN built_rows : Len(built_rows[i]) = n})

\* max(counts.items(), key=lambda kv: kv[1]): the first inserted count among
\* the most frequent ones, as [col_count, freq]; built_rows is not empty.
DominantCount(built_rows) ==
    LET first == CHOOSE i \in DOMAIN built_rows :
                    /\ \A j \in DOMAIN built_rows :
                          CountOf(built_rows, Len(built_rows[j]))
                              <= CountOf(built_rows, Len(built_rows[i]))
                    /\ \A j \in 1..(i - 1) :
                          CountOf(built_rows, Len(built_rows[j]))
                              < CountOf(built_rows, Len(built_rows[i]))
    IN  [col_count |-> Len(built_rows[first]),
         freq |-> CountOf(built_rows, Len(built_rows[first]))]

\* A variant of the padding that leaves a long row as it is.
PadWithoutTruncate(r, col_count) == PadRow(r, col_count)

\* "pad/truncate as needed"
PadOrTruncate(r, col_count) ==
    IF Len(r) < col_count THEN PadRow(r, col_count)
    ELSE IF Len(r) > col_count THEN SubSeq(r, 1, col_count)
    ELSE r

\* filtered
FilteredRows(built_rows, col_count) ==
    [i \in DOMAIN built_rows |->
        LET r == PadOrTruncate(built_rows[i], col_count)
        IN  [c \in DOMAIN r |-> CleanTextFragments(r[c])]]

\* A variant of the test that does not look at the number of rows.
TooFewColumnsOnly(dom) == dom.col_count < GridMinColumns

\* "if col_count < 3 or freq < 3: return"
TooFewColumnsOrRows(dom) == dom.col_count < GridMinColumns \/ dom.freq < GridMinRows

\* The tables that _detect_tables_from_text_grid appends for a page.
DetectTablesFromTextGrid(page, pnum) ==
    LET built_rows == BuiltRows(page)
        dom == DominantCount(built_rows)
    IN  IF built_rows = <<>> THEN <<>>
        ELSE IF TooFewColumnsOrRows(dom) THEN <<>>
        ELSE GridTable(HeadersAndRows(FilteredRows(built_rows, dom.col_count)), pnum)

(***************************************************************************)
(* detect_tables_advanced: for each page the stakeholder detector, the     *)
(* technical detector, the vector-grid detector and the text-grid          *)
(* detector, one action each (find_requirements_tables does nothing).      *)
(***************************************************************************)
\* The call of a strategy raises on the page at hand (its field throws names
\* the strategy: a block that lacks a key the keyword detectors read, a
\* failure of page.get_drawings or of page.get_text).
Raises(strategy) == page_input[page_num + 1].throws = strategy

\* The calls of lines 120-121 stand outside any try: an exception leaves
\* detect_tables_advanced and ends the detection.
FindStakeholder ==
    /\ pc = "stakeholder"
    /\ IF Raises("stakeholder")
          THEN tables' = tables /\ pc' = "aborted"
          ELSE /\ tables' = tables \o FindStakeholderTables(page_input[page_num + 1], page_num)
               /\ pc' = "technical"
    /\ UNCHANGED <<page_input, page_num, asmVars, imgVars, rfVars, colVars>>

FindTechnical ==
    /\ pc = "technical"
    /\ IF Raises("technical")
          THEN tables' = tables /\ pc' = "aborted"
          ELSE /\ tables' = tables \o FindTechnicalTables(page_input[page_num + 1], page_num)
               /\ pc' = "drawing_lines"
    /\ UNCHANGED <<page_input, page_num, asmVars, imgVars, rfVars, colVars>>

\* The calls of lines 124-132 are wrapped in try/except Exception.
DetectDrawingLines ==
    /\ pc = "drawing_lines"
    /\ tables' = IF Raises("drawing_lines") THEN tables
                 ELSE tables \o DetectTablesFromDrawingLines(page_input[page_num + 1], page_num)
    /\ pc' = "text_grid"
    /\ UNCHANGED <<page_input, page_num, asmVars, imgVars, rfVars, colVars>>

DetectTextGrid ==
    /\ pc = "text_grid"
    /\ tables' = IF Raises("text_grid") THEN tables
                 ELSE tables \o DetectTablesFromTextGrid(page_input[page_num + 1], page_num)
    /\ page_num' = page_num + 1
    /\ pc' = IF page_num + 1 < Len(page_input) THEN "stakeholder" ELSE "detected"
    /\ UNCHANGED <<page_input, asmVars, imgVars, rfVars, colVars>>

(***************************************************************************)
(* SpecTables: detect_tables_advanced over a document of one or two pages. *)
(* A page either carries up to MaxKeywordLines lines of running text, or   *)
(* up to MaxGridLines lines of spans set in columns, with or without ruled *)
(* lines around them.                                                      *)
(***************************************************************************)
MaxKeywordLines == 3
MaxGridLines == 4

\* The lines of running text: one span at x0 = 40; the last one is a blank
\* line.
KeywordLineKinds ==
    { <<[x0 |-> 40, text |-> <<"S","t","a","k","e","h","o","l","d","e","r"," ","C","a","t","e","g","o","r","y">>]>>,
      <<[x0 |-> 40, text |-> <<"C","u","l","t","u","r","a","l"," ","P","r","o","d","u","c","e","r","s",","," ","a">>]>>,
      <<[x0 |-> 40, text |-> <<"C","u","l","t","u","r","a","l"," ","P","r","o","d","u","c","e","r","s",";"," ","a",";"," ","b">>]>>,
      <<[x0 |-> 40, text |-> <<"D","e","p","e","n","d","e","n","c","y"," ","T","y","p","e">>]>>,
      <<[x0 |-> 40, text |-> <<"S","y","s","t","e","m"," ","D","e","p","e","n","d","e","n","c","i","e","s"," ","d","b">>]>>,
      <<[x0 |-> 40, text |-> <<"R","e","q","u","i","r","e","m","e","n","t"," ","I","D">>]>>,
      <<[x0 |-> 40, text |-> <<"F","-","1"," ","x"," ","H","i","g","h">>]>>,
      <<[x0 |-> 40, text |-> <<"1","."," ","x">>]>>,
      <<[x0 |-> 40, text |-> <<"i","m","p","a","c","t">>]>>,
      <<[x0 |-> 40, text |-> <<"a">>]>>,
      <<[x0 |-> 40, text |-> <<" ">>]>> }

\* The lines set in columns: spans 50 apart start a cell of their own, spans
\* 15 apart share one; a span may be blank or hold a soft hyphen only.
GridLineKinds ==
    { <<[x0 |-> 40, text |-> <<"a">>], [x0 |-> 90, text |-> <<"b">>], [x0 |-> 140, text |-> <<"c">>]>>,
      <<[x0 |-> 40, text |-> <<"a">>], [x0 |-> 90, text |-> <<"b">>]>>,
      <<[x0 |-> 40, text |-> <<"a">>], [x0 |-> 90, text |-> <<"b">>], [x0 |-> 140, text |-> <<"c">>], [x0 |-> 190, text |-> <<"d">>]>>,
      <<[x0 |-> 40, text |-> <<"a">>], [x0 |-> 55, text |-> <<"b">>], [x0 |-> 90, text |-> <<"c">>], [x0 |-> 140, text |-> <<"d">>]>>,
      <<[x0 |-> 40, text |-> <<"SHY">>], [x0 |-> 90, text |-> <<" ">>], [x0 |-> 90, text |-> <<"b">>], [x0 |-> 140, text |-> <<"c">>]>> }

\* The y0 of line i of a page: 20 apart from y0 = 20; "tight" sets the second
\* line 2 under the first, "low" starts at y0 = 40.
TblLineY(pattern, i) ==
    CASE pattern = "spread" -> 20 * i
      [] pattern = "tight" -> IF i = 2 THEN 22 ELSE 20 * i
      [] pattern = "low" -> 20 * (i + 1)

TblLines(ks, pattern) ==
    [i \in DOMAIN ks |->
        [s \in DOMAIN ks[i] |->
            [x0 |-> ks[i][s].x0, y0 |-> TblLineY(pattern, i), text |-> ks[i][s].text]]]

Segment(x0, y0, x1, y1) == [x0 |-> x0, y0 |-> y0, x1 |-> x1, y1 |-> y1]

\* The ruled lines of a page: none; a grid of 3 rows (y = 15, 35, 55, 75) and
\* 3 columns (x = 30, 80, 130, 180); the same grid with one rule drawn twice,
\* 2 apart, and one right to left; a single rule and a short stroke.
TblDrawings ==
    { <<>>,
      <<Segment(30, 15, 180, 15), Segment(30, 35, 180, 35), Segment(30, 55, 180, 55),
        Segment(30, 75, 180, 75), Segment(30, 15, 30, 75), Segment(80, 15, 80, 75),
        Segment(130, 15, 130, 75), Segment(180, 15, 180, 75)>>,
      <<Segment(180, 15, 30, 15), Segment(30, 35, 180, 35), Segment(30, 55, 180, 55),
        Segment(30, 15, 30, 55), Segment(80, 15, 80, 55), Segment(82, 55, 82, 15),
        Segment(180, 15, 180, 55)>>,
      <<Segment(30, 15, 180, 15), Segment(30, 15, 35, 15), Segment(30, 15, 30, 75)>> }

KeywordPages ==
    { [lines |-> TblLines(ks, "spread"), drawings |-> <<>>, throws |-> "none"] :
      ks \in SeqsUpTo(KeywordLineKinds, MaxKeywordLines) }

GridPages ==
    { [lines |-> TblLines(ks, pattern), drawings |-> d, throws |-> "none"] :
      ks \in SeqsUpTo(GridLineKinds, MaxGridLines),
      pattern \in {"spread", "tight", "low"},
      d \in TblDrawings }

\* The strategy whose call raises on a page, if any.
TblThrows == {"none", "stakeholder", "technical", "drawing_lines", "text_grid"}

\* The pages of the two-page documents.
SamplePages ==
    { [lines |-> TblLines(ks, "spread"), drawings |-> <<>>, throws |-> th] :
      th \in TblThrows,
      ks \in { <<<<[x0 |-> 40, text |-> <<"S","t","a","k","e","h","o","l","d","e","r"," ","C","a","t","e","g","o","r","y">>]>>,
                 <<[x0 |-> 40, text |-> <<"C","u","l","t","u","r","a","l"," ","P","r","o","d","u","c","e","r","s",","," ","a">>]>>>>,
               <<<<[x0 |-> 40, text |-> <<"D","e","p","e","n","d","e","n","c","y"," ","T","y","p","e">>]>>,
                 <<[x0 |-> 40, text |-> <<"S","y","s","t","e","m"," ","D","e","p","e","n","d","e","n","c","i","e","s"," ","d","b">>]>>>>,
               <<<<[x0 |-> 40, text |-> <<"a">>], [x0 |-> 90, text |-> <<"b">>], [x0 |-> 140, text |-> <<"c">>]>>,
                 <<[x0 |-> 40, text |-> <<"a">>], [x0 |-> 90, text |-> <<"b">>], [x0 |-> 140, text |-> <<"c">>]>>,
                 <<[x0 |-> 40, text |-> <<"a">>], [x0 |-> 90, text |-> <<"b">>], [x0 |-> 140, text |-> <<"c">>]>>,
                 <<[x0 |-> 40, text |-> <<"a">>], [x0 |-> 90, text |-> <<"b">>]>>>> } }

TblDocs ==
    {<<p>> : p \in KeywordPages \cup GridPages}
        \cup {<<p, q>> : p \in SamplePages, q \in SamplePages}

InitTables ==
    /\ pc = "stakeholder"
    /\ page_input \in TblDocs
    /\ page_num = 0
    /\ tables = <<>>
    /\ AsmIdle /\ ImgIdle /\ RfIdle /\ ColIdle

NextTables == FindStakeholder \/ FindTechnical \/ DetectDrawingLines \/ DetectTextGrid

SpecTables == InitTables /\ [][NextTables]_vars

UniformWidth(t) == \A r \in DOMAIN t.data : Len(t.data[r]) = Len(t.data[1])

\* C8: every table appended by the vector-grid or the text-grid detector is
\* rectangular: each row of its data has as many cells as the header row,
\* the first row of the data.
C8_GridTablesRectangular ==
    \A i \in DOMAIN tables : tables[i].type = "grid" => UniformWidth(tables[i])

\* The text-grid detector appended a table for a page without ruled lines
\* whose rows of spans had 3, 3, 3 and 4 cells.
C8_Witness ==
    /\ pc = "detected"
    /\ Len(page_input) = 1
    /\ page_input[1].drawings = <<>>
    /\ Len(BuiltRows(page_input[1])) = 4
    /\ \E i \in 1..4 : Len(BuiltRows(page_input[1])[i]) = 4
    /\ \E i \in DOMAIN tables :
           /\ tables[i].type = "grid"
           /\ Len(tables[i].data) = 4
           /\ Len(tables[i].data[1]) = 3

\* C9 as stated: every table of the table list, whichever detector created
\* it, has rows of uniform width: every row has as many cells as the first
\* (header) row.
C9_AllTablesUniform ==
    \A i \in DOMAIN tables : UniformWidth(tables[i])

\* The text a ends with a one-letter word out of letters: the letter is the
\* whole text or follows a character that is no letter.
EndsWithWord(a, letters) ==
    /\ a # <<>>
    /\ Last(a) \in letters
    /\ (Len(a) = 1 \/ a[Len(a) - 1] \notin LetterChars)

\* C11 as stated: when reflow merges two consecutive paragraph lines of a page
\* and the first ends with the one-letter word "a" or "I", followed by a
\* lowercase continuation, the merged text keeps a space between the two; the
\* two are concatenated without a space only for another letter.
C11_ArticleKeepsSpace ==
    [][(/\ pc \in {"reflow1", "reflow2"}
        /\ rf_idx <= Len(rf_stream)
        /\ RfMergeCandidate
        /\ EndsWithWord(RStrip(RfPrev.text), {"a", "I"})
        /\ StartsLowerWord(RfItemText)
        /\ reflowed' = reflowed)
          => rf_stream'[Last(reflowed)].text =
                CleanTextFragments((RStrip(RfPrev.text) \o <<" ">>) \o RfItemText)]_vars

\* Line i of the stream is a list item: a paragraph that _parse_list_item takes.
IsListLine(i) ==
    /\ i \in DOMAIN content_structure
    /\ content_structure[i].type = "paragraph"
    /\ Len(Strip(content_structure[i].text)) > 1
    /\ ParseListItem(content_structure[i].text, content_structure[i].x0) # NoList

ListInfo(i) == ParseListItem(content_structure[i].text, content_structure[i].x0)

\* C12: a list item that follows a list item of the same marker kind and the
\* same indent level adds only its <li> to the open list: it opens no list,
\* closes none, and leaves the list stack as it is.
C12_SameListOneLi ==
    [][(/\ pc = "build"
        /\ IsListLine(idx - 1) /\ IsListLine(idx)
        /\ ListInfo(idx - 1).type = ListInfo(idx).type
        /\ ListInfo(idx - 1).level = ListInfo(idx).level)
          => /\ section_content' = Append(section_content, LiTok(ListInfo(idx).content))
             /\ list_stack' = list_stack]_vars

\* Two bullet lines at x0 = 40 have given one <ul> with two <li>.
C12_Witness ==
    /\ pc = "build"
    /\ idx = 3
    /\ IsListLine(1) /\ IsListLine(2)
    /\ content_structure[1].x0 = 40 /\ content_structure[2].x0 = 40
    /\ ListInfo(1).type = "ul" /\ ListInfo(2).type = "ul"
    /\ section_content = <<OpenTok("ul"), LiTok(<<"c">>), LiTok(<<"c">>)>>
    /\ list_stack = <<[type |-> "ul", level |-> 0]>>

\* C13 as stated: after the assembler processed a heading line (main title,
\* section, subsection or bold header) or a paragraph line that is not a list
\* item, no list level remains open: the list stack is empty.
C13_HeadingClosesLists ==
    [][(/\ pc = "build"
        /\ idx \in DOMAIN content_structure
        /\ ~IsListLine(idx)
        /\ idx' = idx + 1)
          => list_stack' = <<>>]_vars

\* The page that the detectors are working on.
TblPage == page_input[page_num + 1]

\* C14 as stated: the text-grid detector is a fallback; on a page for which
\* the vector-grid detector produced a table it appends no table.
C14_TextGridOnlyFallback ==
    [][(/\ pc = "text_grid"
        /\ DetectTablesFromDrawingLines(TblPage, page_num) # <<>>)
          => tables' = tables]_vars

\* The numbers of cells that occur most often among the built rows of a page.
MostFrequentCounts(page) ==
    LET rows == BuiltRows(page)
        ns == {Len(rows[i]) : i \in DOMAIN rows}
    IN  {n \in ns : \A m \in ns : CountOf(rows, m) <= CountOf(rows, n)}

\* C15: the text-grid detector appends a table for a page only if a most
\* frequent per-row cell count of the page is at least 3 and at least 3 rows
\* have it; and a document of one page with no drawing lines and fewer than 3
\* rows sharing a cell count ends with no grid table.
C15_TextGridThreshold ==
    /\ [][(pc = "text_grid" /\ tables' # tables)
             => \E n \in MostFrequentCounts(TblPage) :
                   n >= 3 /\ CountOf(BuiltRows(TblPage), n) >= 3]_vars
    /\ [](( /\ pc = "detected"
            /\ Len(page_input) = 1
            /\ page_input[1].drawings = <<>>
            /\ \A n \in MostFrequentCounts(page_input[1]) :
                  CountOf(BuiltRows(page_input[1]), n) < 3)
             => \A i \in DOMAIN tables : tables[i].type # "grid")

\* The text-grid detector appended a table for a page without ruled lines
\* whose rows of spans had 3, 3, 3 and 2 cells in some order.
C15_Witness ==
    /\ pc = "detected"
    /\ Len(page_input) = 1
    /\ page_input[1].drawings = <<>>
    /\ Len(BuiltRows(page_input[1])) = 4
    /\ CountOf(BuiltRows(page_input[1]), 3) = 3
    /\ CountOf(BuiltRows(page_input[1]), 2) = 1
    /\ \E i \in DOMAIN tables : tables[i].type = "grid" /\ Len(tables[i].data) = 4

\* The step that follows a strategy when detect_tables_advanced goes on.
AfterStrategy(strategy) ==
    CASE strategy = "stakeholder" -> "technical"
      [] strategy = "technical" -> "drawing_lines"
      [] strategy = "drawing_lines" -> "text_grid"
      [] strategy = "text_grid" ->
           IF page_num + 1 < Len(page_input) THEN "stakeholder" ELSE "detected"

\* C16 as stated: when the call of any one strategy raises on a page, the
\* strategy adds no table, the tables already found stay as they are, and
\* the detection goes on with the next strategy or the next page.
C16_FailureIsLocal ==
    [][(/\ pc \in {"stakeholder", "technical", "drawing_lines", "text_grid"}
        /\ Raises(pc))
          => tables' = tables /\ pc' = AfterStrategy(pc)]_vars

\* The record of image i of the document is in self.images.
Recorded(i) ==
    \E k \in 1..Len(images) :
        /\ images[k].page = doc_images[i].page
        /\ images[k].index = ImageIndex(doc_images, i)
        /\ images[k].sha1 = doc_images[i].content.sha1

\* C17: after extract_images an image whose extraction threw has no record,
\* and every other image of the document, on the same page or on a later
\* one, before or after the failing image, has its record; the records are as
\* many as the images that were extracted.
C17_FailedImageSkipped ==
    pc # "extract" =>
        /\ \A i \in 1..Len(doc_images) :
              IF Extractable(i) THEN Recorded(i)
              ELSE \A k \in 1..Len(images) :
                      ~(/\ images[k].page = doc_images[i].page
                        /\ images[k].index = ImageIndex(doc_images, i))
        /\ Len(images) = Cardinality({i \in 1..Len(doc_images) : Extractable(i)})

\* Three images, the second one throws; the third one, on the same page as
\* the second, and the first one are recorded.
C17_Witness ==
    /\ pc = "extracted"
    /\ Len(doc_images) = 3
    /\ ~Extractable(2)
    /\ doc_images[3].page = doc_images[2].page
    /\ Recorded(1)
    /\ Recorded(3)
    /\ Len(images) = 2

\* The distinct left-x positions of the paragraph-like lines.
ParagraphXSet(lines) ==
    {lines[i].x0 : i \in {j \in DOMAIN lines : ParagraphLike(lines[j])}}

\* The pairs <<a, b>> of positions that are adjacent in the sorted positions.
AdjacentX(X) ==
    {p \in X \X X : p[1] < p[2] /\ ~\E x \in X : p[1] < x /\ x < p[2]}

\* The widest of the gaps between adjacent positions.
LargestGaps(X) ==
    {p \in AdjacentX(X) : \A q \in AdjacentX(X) : q[2] - q[1] <= p[2] - p[1]}

\* The lines are read column 0 first, then column 1, each column top to
\* bottom, where column 0 holds the lines left of the midpoint of a and b.
ColumnsThenY(lines, a, b) ==
    \A i, j \in DOMAIN lines :
        i < j =>
            LET ci == IF 2 * lines[i].x0 < a + b THEN 0 ELSE 1
                cj == IF 2 * lines[j].x0 < a + b THEN 0 ELSE 1
            IN  ci < cj \/ (ci = cj /\ lines[i].y0 <= lines[j].y0)

\* The two outcomes for the positions X: a split at the midpoint of a
\* largest gap if that gap is at least 40 units, the (y0, x0) order if not.
SplitOrBaseline(X) ==
    /\ SameLines(ordered_lines, page_lines)
    /\ IF \E p \in LargestGaps(X) : p[2] - p[1] >= 40 * 100
       THEN \E p \in LargestGaps(X) : ColumnsThenY(ordered_lines, p[1], p[2])
       ELSE TopToBottom(ordered_lines)

\* C18 as stated: for a page whose paragraph-like lines have at least 8
\* distinct left-x positions, if the largest gap between adjacent sorted
\* positions is at least 40 units every line left of the gap's midpoint comes
\* before every line at or right of it and each column is in non-decreasing
\* y order; if the largest gap is below 40 the lines come back sorted by
\* (y0, x0).
C18_ColumnSplit ==
    (pc = "reordered" /\ Cardinality(ParagraphXSet(page_lines)) >= 8)
        => SplitOrBaseline(ParagraphXSet(page_lines))

\* C18 amended: the same with the gaps taken between the positions rounded
\* to one decimal (round(x0, 1)), which is what the code measures.
C18_ColumnSplitRounded ==
    (pc = "reordered" /\ Cardinality(ParagraphXSet(page_lines)) >= 8)
        => SplitOrBaseline({Round1(x) : x \in ParagraphXSet(page_lines)})

\* Eight lines at eight x-positions in two runs exactly 40 apart, handed over
\* bottom to top, come back as the left run top to bottom followed by the
\* right run top to bottom, which is not the (y0, x0) order.
C18_Witness ==
    /\ pc = "reordered"
    /\ Len(page_lines) = 8
    /\ Cardinality(ParagraphXSet(page_lines)) = 8
    /\ \E p \in AdjacentX(ParagraphXSet(page_lines)) :
          /\ p[2] - p[1] = 40 * 100
          /\ \A q \in AdjacentX(ParagraphXSet(page_lines)) : q = p \/ q[2] - q[1] < 40 * 100
          /\ ColumnsThenY(ordered_lines, p[1], p[2])
    /\ ~TopToBottom(page_lines)
    /\ ~TopToBottom(ordered_lines)

\* The tables of section token sec follow the anchor: no table of another
\* page stands before a table of the anchor's page, and of two tables of the
\* anchor's page that have a y-position the one nearer to the anchor stands
\* first.
OrderedByProximity(sec, anchor) ==
    \A a, b \in DOMAIN sec.tables :
        a < b =>
            LET ta == tables[sec.tables[a].table]
                tb == tables[sec.tables[b].table]
            IN  /\ ~(ta.page # anchor.page /\ tb.page = anchor.page)
                /\ (/\ ta.page = anchor.page /\ tb.page = anchor.page
                    /\ ta.y0 # NoY /\ tb.y0 # NoY)
                      => AbsInt(ta.y0 - anchor.y0) <= AbsInt(tb.y0 - anchor.y0)

\* C19 as stated: when a section with an anchor is closed, its tables are in
\* the order same page first, then vertical nearness to the anchor.
C19_TablesByProximity ==
    [][(/\ pc = "build"
        /\ Len(html_content') = Len(html_content) + 1
        /\ html_content'[Len(html_content')].tag = "section"
        /\ section_anchor # NoAnchor)
          => OrderedByProximity(html_content'[Len(html_content')], section_anchor)]_vars

\* The line announces a table to the keyword detector that pc names.
IsHeaderLine(line, detector) ==
    IF detector = "stakeholder"
    THEN ContainsAny(LineText(line), StakeholderKeywords.headers)
    ELSE TechnicalHeaderRow(LineText(line)) # <<>>

\* A blank line or a line that matches a section-break pattern.
EndsTable(line) == LineText(line) = <<>> \/ IsSectionBreak(LineText(line))

\* The lines after header line h up to, not including, the first line after h
\* that ends the table.
RowLinesAfter(page, h) ==
    {k \in (h + 1)..Len(page.lines) :
        \A e \in (h + 1)..k : ~EndsTable(page.lines[e])}

\* C20 as stated, for a page with one header line: the table that a keyword
\* detector stores holds, beside its header row, no more rows than there are
\* lines between the header line and the first blank or section-break line
\* after it: that line and the lines after it are not captured.
C20_BreakEndsTable ==
    [][(/\ pc \in {"stakeholder", "technical"}
        /\ ~Raises(pc))
          => \A h \in DOMAIN TblPage.lines :
                (\A k \in DOMAIN TblPage.lines :
                     IsHeaderLine(TblPage.lines[k], pc) <=> k = h)
                  => \A i \in (Len(tables) + 1)..Len(tables') :
                        Len(tables'[i].data) <= 1 + Cardinality(RowLinesAfter(TblPage, h))]_vars

\* C21 as stated: no step of the assembly changes a table record: the rows
\* and cells of every table stay as the detection pass left them.
C21_TablesNeverMutated ==
    [][pc = "build" => tables' = tables]_vars

(***************************************************************************)
(* classify_text_type and _extract_page_lines_with_positions.  A raw line  *)
(* is a sequence of spans [text, size, bold, x0, y0], bold standing for    *)
(* the bit 2**4 of the span's flags.                                       *)
(***************************************************************************)
TitleMinFontSize == 16
BoldHeaderMaxLen == 100

TitleKeywords ==
    { <<"T","e","c","h","n","i","c","a","l"," ","S","p","e","c","i","f","i","c","a","t","i","o","n","s">>,
      <<"I","N","T","R","O","D","U","C","T","I","O","N">>,
      <<"S","Y","S","T","E","M"," ","O","V","E","R","V","I","E","W">>,
      <<"P","R","O","C","E","S","S"," ","F","L","O","W","C","H","A","R","T">> }

\* \s+[cls]+$ matches the whole of s: s starts with a white space and
\* consists of white space and characters of cls, at least two in all.
IsSpaceThenAll(s, cls) ==
    /\ Len(s) >= 2
    /\ s[1] \in SpaceChars
    /\ \A i \in DOMAIN s : s[i] \in cls \cup SpaceChars

\* ^\d+\.?\d*\s+[A-Z\s]+$
MatchesNumberedUpper(text) ==
    LET d1 == RunLen(text, DigitChars)
        after1 == Drop(text, d1)
        after_dot == IF after1 # <<>> /\ after1[1] = "." THEN Tail(after1) ELSE after1
        after2 == Drop(after_dot, RunLen(after_dot, DigitChars))
    IN  d1 >= 1 /\ IsSpaceThenAll(after2, UpperChars)

\* The text after a match of \d+(\.\d+){dots} at its head, or <<"!">> (no
\* rest can follow) if there is no such match.
RECURSIVE AfterDottedNumber(_, _)
AfterDottedNumber(text, dots) ==
    LET d == RunLen(text, DigitChars)
        rest == Drop(text, d)
    IN  IF d = 0 THEN <<"!">>
        ELSE IF dots = 0 THEN rest
        ELSE IF rest # <<>> /\ rest[1] = "." THEN AfterDottedNumber(Tail(rest), dots - 1)
        ELSE <<"!">>

\* ^\d+\.\d+\s+[A-Za-z\s]+$
MatchesTwoPartNumber(text) == IsSpaceThenAll(AfterDottedNumber(text, 1), LetterChars)

\* ^\d+\.\d+\.\d+\s+[A-Za-z\s]+$
MatchesThreePartNumber(text) == IsSpaceThenAll(AfterDottedNumber(text, 2), LetterChars)

IsTitle(text, font_size, is_bold) ==
    font_size >= TitleMinFontSize \/ (is_bold /\ ContainsAny(text, TitleKeywords))

IsNumberedSection(text) == MatchesNumberedUpper(text) \/ MatchesTwoPartNumber(text)

IsBoldHeader(text, is_bold) ==
    is_bold /\ Len(text) < BoldHeaderMaxLen /\ ~(text # <<>> /\ text[Len(text)] = ".")

\* A variant that looks at the numbering before the font size.
ClassifyNumberingFirst(text, font_size, is_bold) ==
    IF IsNumberedSection(text) THEN "section_header"
    ELSE IF IsTitle(text, font_size, is_bold) THEN "main_title"
    ELSE IF MatchesThreePartNumber(text) THEN "subsection_header"
    ELSE IF IsBoldHeader(text, is_bold) THEN "bold_header"
    ELSE "paragraph"

ClassifyTextType(text, font_size, is_bold) ==
    IF IsTitle(text, font_size, is_bold) THEN "main_title"
    ELSE IF IsNumberedSection(text) THEN "section_header"
    ELSE IF MatchesThreePartNumber(text) THEN "subsection_header"
    ELSE IF IsBoldHeader(text, is_bold) THEN "bold_header"
    ELSE "paragraph"

\* The spans of a raw line that have a text.
TextSpans(line) == SelectSeq(line, LAMBDA sp : sp.text # <<>>)

\* line_text before strip(): the span texts one after the other.
RawLineText(line) ==
    LET sps == TextSpans(line)
        F[i \in 0..Len(sps)] == IF i = 0 THEN <<>> ELSE F[i - 1] \o sps[i].text
    IN  F[Len(sps)]

\* max_font_size and is_bold of a raw line.
MaxFontSize(line) ==
    LET sps == TextSpans(line)
        F[i \in 0..Len(sps)] == IF i = 0 THEN 0 ELSE Max2(F[i - 1], sps[i].size)
    IN  F[Len(sps)]

IsBoldLine(line) == \E i \in DOMAIN line : line[i].text # <<>> /\ line[i].bold

\* The record that _extract_page_lines_with_positions appends for a raw line
\* whose stripped text is not empty.
ExtractedLine(line, pnum) ==
    [text |-> Strip(RawLineText(line)), page |-> pnum,
     type |-> ClassifyTextType(Strip(RawLineText(line)), MaxFontSize(line), IsBoldLine(line)),
     font_size |-> MaxFontSize(line), is_bold |-> IsBoldLine(line),
     x0 |-> TextSpans(line)[1].x0, y0 |-> TextSpans(line)[1].y0]

ExtractPageLinesWithPositions(page, pnum) ==
    LET F[i \in 0..Len(page)] ==
            IF i = 0 THEN <<>>
            ELSE IF Strip(RawLineText(page[i])) = <<>> THEN F[i - 1]
            ELSE Append(F[i - 1], ExtractedLine(page[i], pnum))
    IN  F[Len(page)]

\* process_text_with_hierarchy, line 587: the lines of the page at hand.
ExtractPageLines ==
    /\ pc = "extract_lines"
    /\ page_lines' = ExtractPageLinesWithPositions(page_input[page_num + 1], page_num)
    /\ pc' = "reorder"
    /\ UNCHANGED <<ordered_lines, asmVars, imgVars, rfVars, tblVars>>

(***************************************************************************)
(* SpecExtract: process_text_with_hierarchy on a one-page document of up   *)
(* to MaxRawLines raw lines: the lines are extracted and classified,       *)
(* reordered and appended to the stream.                                   *)
(***************************************************************************)
MaxRawLines == 1

RECURSIVE Repeat(_, _)
Repeat(s, n) == IF n = 0 THEN <<>> ELSE s \o Repeat(s, n - 1)

\* The texts of the first span of a raw line.
RawTexts ==
    { <<"T","e","c","h","n","i","c","a","l"," ","S","p","e","c","i","f","i","c","a","t","i","o","n","s",".">>,
      <<"1"," ","I","N","T","R","O","D","U","C","T","I","O","N">>,
      <<"1","."," ","A"," ","B">>,
      <<"1","2"," ","\t","A">>,
      <<"1",".","2"," ","S","y","s"," ","o","v">>,
      <<"1",".","2","S","y","s">>,
      <<"1",".","1",".","1"," ","S","u","b">>,
      <<"1",".","1",".","1"," ","S","u","b","1">>,
      <<"1","."," ","I","n","t","r","o">>,
      <<"1","."," ","I","n","t","r","o",".">>,
      <<"B","o">>,
      <<"B","o",".">>,
      <<"BULLET"," ","c">>,
      <<" ">>,
      Repeat(<<"c">>, BoldHeaderMaxLen - 1),
      Repeat(<<"c">>, BoldHeaderMaxLen) }

\* The second span of a raw line, if any: none, an empty bold one, a large
\* blank, or a bold upper-case word.
SecondSpans ==
    { <<>>,
      <<[text |-> <<>>, size |-> 18, bold |-> TRUE, x0 |-> 9000, y0 |-> 100]>>,
      <<[text |-> <<" ">>, size |-> 16, bold |-> FALSE, x0 |-> 9000, y0 |-> 100]>>,
      <<[text |-> <<" ","X">>, size |-> 10, bold |-> TRUE, x0 |-> 9000, y0 |-> 100]>> }

RawLines ==
    { <<[text |-> t, size |-> sz, bold |-> b, x0 |-> 4000, y0 |-> 100]>> \o second :
      t \in RawTexts, sz \in {12, TitleMinFontSize - 1, TitleMinFontSize, 18},
      b \in BOOLEAN, second \in SecondSpans }

InitExtract ==
    /\ pc = "extract_lines"
    /\ page_input \in {<<p>> : p \in SeqsUpTo(RawLines, MaxRawLines)}
    /\ page_num = 0
    /\ tables = <<>>
    /\ ColIdle
    /\ AsmIdle /\ ImgIdle /\ RfIdle

NextExtract == ExtractPageLines \/ ReorderLines \/ ExtendContent

SpecExtract == InitExtract /\ [][NextExtract]_vars

Roles == {"main_title", "section_header", "subsection_header", "bold_header", "paragraph"}

OpenedBy(before, after) ==
    Cardinality({k \in (Len(before) + 1)..Len(after) : after[k].tag = "open"})

\* C23: at every point of the assembly the levels on the list stack are
\* 0, 1, ..., k from bottom to top; after a list item of kind T at level L
\* the top of the stack is (T, L), and the step opened at most L + 1 lists
\* (the loop that opens the missing levels ends).
C23_StackLevelsConsecutive ==
    /\ [](pc = "build" => \A k \in DOMAIN list_stack : list_stack[k].level = k - 1)
    /\ [][(pc = "build" /\ IsListLine(idx) /\ idx' = idx + 1)
            => /\ list_stack' # <<>>
               /\ Top(list_stack') = [type |-> ListInfo(idx).type, level |-> ListInfo(idx).level]
               /\ Len(list_stack') = ListInfo(idx).level + 1
               /\ OpenedBy(section_content, section_content') <= ListInfo(idx).level + 1]_vars

\* A first list item at level 2 opened the levels 0, 1 and 2.
C23_Witness ==
    /\ pc = "build"
    /\ idx = 2
    /\ IsListLine(1)
    /\ ListInfo(1).level = 2
    /\ Len(list_stack) = 3
    /\ list_stack[1].level = 0
    /\ list_stack[3] = [type |-> "ol", level |-> 2]
    /\ section_content = <<OpenTok("ol"), OpenTok("ol"), OpenTok("ol"), LiTok(<<"c">>)>>

\* The (page, y0) of the line that the assembler is about to process.
OwnPosition == [page |-> CurItem.page, y0 |-> CurItem.y0]

\* C24: the section anchor is unset after a main_title line, is the position
\* of the line after a section, subsection or bold header line, and after a
\* paragraph line it is what it was if it was set; if it was unset it is
\* still unset or is the paragraph's position, the latter for a non-list
\* paragraph of more than one character.
C24_AnchorStateMachine ==
    [][(pc = "build" /\ idx \in DOMAIN content_structure /\ idx' = idx + 1)
          => CASE CurItem.type = "main_title" -> section_anchor' = NoAnchor
               [] CurItem.type \in {"section_header", "subsection_header", "bold_header"} ->
                    section_anchor' = OwnPosition
               [] CurItem.type = "paragraph" ->
                    IF section_anchor # NoAnchor THEN section_anchor' = section_anchor
                    ELSE /\ section_anchor' \in {NoAnchor, OwnPosition}
                         /\ (~IsListLine(idx) /\ Len(Strip(CurItem.text)) > 1)
                               => section_anchor' = OwnPosition]_vars

\* A header line set the anchor and the paragraph after it, on the next
\* page, left it alone.
C24_Witness ==
    /\ pc = "build"
    /\ idx = 4
    /\ content_structure[2].type = "section_header"
    /\ content_structure[3].type = "paragraph"
    /\ ~IsListLine(3)
    /\ Len(Strip(content_structure[3].text)) > 1
    /\ section_anchor = [page |-> content_structure[2].page, y0 |-> content_structure[2].y0]
    /\ section_anchor.page # content_structure[3].page
    /\ section_content # <<>>

\* The positions of the section containers in html_content.
SectionPositions == {j \in DOMAIN html_content : html_content[j].tag = "section"}

\* C25 as stated: in the returned document every entry of the table of
\* contents has exactly one section container with its id, every section
\* container has exactly one entry, and the ids are 1..N in document order.
C25_TocPointsToSections ==
    pc = "built" =>
        /\ \A k \in DOMAIN toc_items :
              Cardinality({j \in SectionPositions : html_content[j].id = toc_items[k].id}) = 1
        /\ \A j \in SectionPositions :
              Cardinality({k \in DOMAIN toc_items : toc_items[k].id = html_content[j].id}) = 1
        /\ \A k \in DOMAIN toc_items : toc_items[k].id = k

\* The markup of the returned document in output order: the headings and, in
\* the place of each section container, the tokens of its content; inside
\* is the id of the container that holds the token, 0 for none.
FlatOutput ==
    LET F[j \in 0..Len(html_content)] ==
            IF j = 0 THEN <<>>
            ELSE IF html_content[j].tag = "section"
            THEN F[j - 1] \o [k \in DOMAIN html_content[j].content |->
                                 [tag |-> html_content[j].content[k].tag,
                                  text |-> html_content[j].content[k].text,
                                  inside |-> html_content[j].id]]
            ELSE Append(F[j - 1], [tag |-> html_content[j].tag,
                                   text |-> html_content[j].text, inside |-> 0])
    IN  F[Len(html_content)]

HeadingTypes == {"section_header", "subsection_header", "bold_header"}

\* The positions in the output of the markup of stream line i.
MarkupOf(i) ==
    {k \in DOMAIN FlatOutput :
        /\ FlatOutput[k].text = content_structure[i].text
        /\ FlatOutput[k].tag = IF content_structure[i].type = "paragraph" THEN "p"
                               ELSE HeadingTag(content_structure[i].type)}

\* C26 as stated: in the returned document the markup of a heading line
\* stands before the markup of a paragraph line exactly when the heading
\* line stands before the paragraph line in the stream, and the markup of a
\* heading that follows a title lies inside the section container of that
\* title.  The order is stated for the lines whose markup occurs once.
C26_OutputKeepsStreamOrder ==
    pc = "built" =>
        /\ \A a, b \in DOMAIN content_structure :
              (/\ content_structure[a].type \in HeadingTypes
               /\ content_structure[b].type = "paragraph"
               /\ Cardinality(MarkupOf(a)) = 1
               /\ Cardinality(MarkupOf(b)) = 1)
                 => \A ka \in MarkupOf(a), kb \in MarkupOf(b) : (a < b) <=> (ka < kb)
        /\ \A a \in DOMAIN content_structure :
              (/\ content_structure[a].type \in HeadingTypes
               /\ Len(TitlesBefore(a)) >= 1)
                 => \A ka \in MarkupOf(a) : FlatOutput[ka].inside = Len(TitlesBefore(a))

\* The paragraph lines of the stream that the assembler does not skip.
ParagraphLines ==
    {i \in DOMAIN content_structure :
        /\ content_structure[i].type = "paragraph"
        /\ Len(Strip(content_structure[i].text)) > 1}

\* The markup of paragraph line i: a list item or a paragraph element.
ParagraphMarkup(i) ==
    IF IsListLine(i) THEN [tag |-> "li", text |-> ListInfo(i).content]
    ELSE [tag |-> "p", text |-> content_structure[i].text]

\* C27 as stated: in the returned document every paragraph line of more than
\* one character has its markup exactly once, so the paragraph and list item
\* elements are as many as these lines, and the section container of the
\* k-th title holds the markup of exactly the lines between the k-th title
\* and the next one.
C27_NoParagraphLost ==
    pc = "built" =>
        /\ Cardinality({k \in DOMAIN FlatOutput : FlatOutput[k].tag \in {"p", "li"}})
              = Cardinality(ParagraphLines)
        /\ \A s \in 1..Len(toc_items) :
              \A i \in ParagraphLines :
                  Cardinality({k \in DOMAIN FlatOutput :
                                  /\ FlatOutput[k].inside = s
                                  /\ FlatOutput[k].tag = ParagraphMarkup(i).tag
                                  /\ FlatOutput[k].text = ParagraphMarkup(i).text})
                    = Cardinality({j \in ParagraphLines :
                                  /\ Len(TitlesBefore(j)) = s
                                  /\ ParagraphMarkup(j) = ParagraphMarkup(i)})

\* The kinds of the lists that are open after the tokens toks, innermost
\* last, starting from the open lists open; <<"unbalanced">> if a closing tag
\* meets no open list or a list of another kind.
RECURSIVE OpenAfter(_, _)
OpenAfter(toks, open) ==
    IF toks = <<>> \/ open = <<"unbalanced">> THEN open
    ELSE IF Head(toks).tag = "open"
    THEN OpenAfter(Tail(toks), Append(open, Head(toks).kind))
    ELSE IF Head(toks).tag = "close"
    THEN IF open # <<>> /\ open[Len(open)] = Head(toks).kind
         THEN OpenAfter(Tail(toks), SubSeq(open, 1, Len(open) - 1))
         ELSE <<"unbalanced">>
    ELSE IF Head(toks).tag = "li" /\ open = <<>> THEN <<"unbalanced">>
    ELSE OpenAfter(Tail(toks), open)

\* C28: in every section container of the output each list that was opened
\* is closed by a closing tag of its kind, the innermost list first, before
\* the container ends, and each list item lies in an open list.
C28_ListsBalanced ==
    \A j \in DOMAIN html_content :
        html_content[j].tag = "section" => OpenAfter(html_content[j].content, <<>>) = <<>>

\* A section container was emitted whose content ends with three lists
\* closed at once, two numbered ones inside a bulleted one.
C28_Witness ==
    \E j \in DOMAIN html_content :
        /\ html_content[j].tag = "section"
        /\ Len(html_content[j].content) >= 3
        /\ LET c == html_content[j].content
               n == Len(c)
           IN  /\ c[1] = OpenTok("ul")
               /\ c[n - 2] = CloseTok("ol") /\ c[n - 1] = CloseTok("ol") /\ c[n] = CloseTok("ul")

\* The section containers of the output that render table i of self.tables.
SectionsRendering(i) ==
    {j \in SectionPositions :
        \E k \in DOMAIN html_content[j].tables : html_content[j].tables[k].table = i}

\* C29 as stated: no table of the converter's table list is rendered in more
\* than one section container.
C29_TableRenderedOnce ==
    \A i \in DOMAIN tables : Cardinality(SectionsRendering(i)) <= 1

\* C30 as stated: after extract_images the recurrence count of every content
\* hash is the number of image records kept with that hash.
C30_CountsOnlyExtracted ==
    pc \in {"extracted", "inserted"} =>
        \A h \in DOMAIN hash_counts :
            hash_counts[h] = Cardinality({k \in DOMAIN images : images[k].sha1 = h})

====
